---------------------------- MODULE Spec2Model ----------------------------
(***************************************************************************)
(* Model of the raster-algebra pipeline of natcap.invest.stormwater.       *)
(*                                                                         *)
(* Floating point values are modelled as exact rationals <<n, d>> in       *)
(* lowest terms with d > 0 (float32 rounding is not modelled).  Arrays     *)
(* handed to a pixel operation by raster_calculator are sequences, one     *)
(* element per pixel of the block; 2D rasters are sequences of rows.       *)
(*                                                                         *)
(* The state is the call frame of the operation under study: pc says which *)
(* operation has run, args holds its arguments, result what it returned or *)
(* wrote, and raised the exception it ended with ("none" when it returned).*)
(***************************************************************************)
EXTENDS Integers, Sequences, FiniteSets, TLC

VARIABLES pc, args, result, raised

vars == <<pc, args, result, raised>>

(***************************************************************************)
(* Program constants                                                       *)
(***************************************************************************)
FLOAT_NODATA == -1

UINT8_NODATA == 255

(***************************************************************************)
(* Bounds of the model                                                     *)
(***************************************************************************)
\* number of pixels in a block handed to a pixel operation
BlockLen == 1

\* land-cover codes a coefficient table can hold are 1..MaxCode
MaxCode == 3

\* a 2D raster has at most MaxPixels pixels
MaxPixels == 6

(***************************************************************************)
(* Exact rational arithmetic standing in for float arithmetic              *)
(***************************************************************************)
Abs(x) == IF x < 0 THEN -x ELSE x

RECURSIVE GCD(_, _)
GCD(a, b) == IF b = 0 THEN a ELSE GCD(b, a % b)

\* the rational n/d (d # 0) in lowest terms with a positive denominator
Rat(n, d) ==
    LET g == GCD(Abs(n), Abs(d))
        s == IF d < 0 THEN -1 ELSE 1
    IN  <<(s * n) \div g, (s * d) \div g>>

\* an integer as a float
F(i) == <<i, 1>>

RAdd(x, y) == Rat(x[1] * y[2] + y[1] * x[2], x[2] * y[2])

RSub(x, y) == Rat(x[1] * y[2] - y[1] * x[2], x[2] * y[2])

RMul(x, y) == Rat(x[1] * y[1], x[2] * y[2])

RDiv(x, y) == Rat(x[1] * y[2], x[2] * y[1])

RLe(x, y) == x[1] * y[2] <= y[1] * x[2]

RLt(x, y) == x[1] * y[2] < y[1] * x[2]

RAbs(x) == <<Abs(x[1]), x[2]>>

\* math.floor
Floor(x) == x[1] \div x[2]

\* numpy.isclose(a, b) with the default rtol = 1e-05, atol = 1e-08:
\*   |a - b| <= atol + rtol * |b|
\* With |a - b| = p/q and |b| = m/k this is  p * k * 10^8 <= (k + 1000 * m) * q,
\* evaluated as  p * k <= ((k + 1000 * m) * q) \div 10^8  to stay in range.
isclose(a, b) ==
    LET diff == RAbs(RSub(a, b))
        bb   == RAbs(b)
    IN  diff[1] * bb[2] <= ((bb[2] + 1000 * bb[1]) * diff[2]) \div 100000000

(***************************************************************************)
(* numpy array helpers                                                     *)
(***************************************************************************)
\* numpy.full(shape, value) for a block of n pixels
full(n, value) == [i \in 1..n |-> value]

\* number of True elements among mask[1..i]
RECURSIVE Rank(_, _)
Rank(mask, i) ==
    IF i = 0 THEN 0 ELSE Rank(mask, i - 1) + (IF mask[i] THEN 1 ELSE 0)

\* array[mask]: the elements at the True positions of mask, in order
RECURSIVE Take(_, _, _)
Take(array, mask, i) ==
    IF i = 0 THEN <<>>
    ELSE IF mask[i] THEN Append(Take(array, mask, i - 1), array[i])
         ELSE Take(array, mask, i - 1)

Masked(array, mask) == Take(array, mask, Len(mask))

\* array[mask] = values: values[k] goes to the k-th True position of mask
Assign(array, mask, values) ==
    [i \in 1..Len(array) |->
        IF mask[i] THEN values[Rank(mask, i)] ELSE array[i]]

\* bitwise or of two uint8 values
RECURSIVE BitOr(_, _)
BitOr(a, b) ==
    IF a = 0 THEN b
    ELSE IF b = 0 THEN a
    ELSE (IF (a % 2 = 1) \/ (b % 2 = 1) THEN 1 ELSE 0)
         + 2 * BitOr(a \div 2, b \div 2)

\* ndarray.astype(bool)
AsBool(x) == x # 0

\* a bool used as a factor in a float product
BoolAsFloat(b) == IF b THEN F(1) ELSE F(0)

(***************************************************************************)
(* adjust_op                                                               *)
(***************************************************************************)
\* valid_mask of adjust_op without the near-road test
adjust_valid_mask_no_road(ratio_array, avg_ratio_array, near_impervious_lulc_array, near_road_array) ==
    [i \in 1..Len(ratio_array) |->
        /\ ~isclose(ratio_array[i], F(FLOAT_NODATA))
        /\ ~isclose(avg_ratio_array[i], F(FLOAT_NODATA))
        /\ near_impervious_lulc_array[i] # UINT8_NODATA]

adjust_valid_mask(ratio_array, avg_ratio_array, near_impervious_lulc_array, near_road_array) ==
    [i \in 1..Len(ratio_array) |->
        /\ ~isclose(ratio_array[i], F(FLOAT_NODATA))
        /\ ~isclose(avg_ratio_array[i], F(FLOAT_NODATA))
        /\ near_impervious_lulc_array[i] # UINT8_NODATA
        /\ near_road_array[i] # UINT8_NODATA]

\* the adjustment factor computed from the near-impervious flag alone
adjustment_factor_no_road(avg_v, near_impervious_v, near_road_v) ==
    [k \in 1..Len(avg_v) |->
        RMul(avg_v[k], BoolAsFloat(~AsBool(near_impervious_v[k])))]

\* avg_ratio_array[valid_mask] *
\*     ~(near_impervious_lulc_array[valid_mask] |
\*       near_road_array[valid_mask]).astype(bool)
adjustment_factor(avg_v, near_impervious_v, near_road_v) ==
    [k \in 1..Len(avg_v) |->
        RMul(avg_v[k],
             BoolAsFloat(~AsBool(BitOr(near_impervious_v[k], near_road_v[k]))))]

\* the blend with the sign of the second term flipped
adjust_blend_minus(ratio_v, factor_v) ==
    [k \in 1..Len(ratio_v) |->
        RSub(ratio_v[k], RMul(RSub(F(1), ratio_v[k]), factor_v[k]))]

\* a blend that forgets to scale the factor by the room left above the ratio
adjust_blend_sum(ratio_v, factor_v) ==
    [k \in 1..Len(ratio_v) |-> RAdd(ratio_v[k], factor_v[k])]

\* equation 2-4: Radj_ij = R_ij + (1 - R_ij) * C_ij
adjust_blend(ratio_v, factor_v) ==
    [k \in 1..Len(ratio_v) |->
        RAdd(ratio_v[k], RMul(RSub(F(1), ratio_v[k]), factor_v[k]))]

adjust_op(ratio_array, avg_ratio_array, near_impervious_lulc_array, near_road_array) ==
    LET n == Len(ratio_array)
        adjusted_ratio_array0 == full(n, F(FLOAT_NODATA))
        adjustment_factor_array0 == full(n, F(FLOAT_NODATA))
        valid_mask == adjust_valid_mask(ratio_array, avg_ratio_array,
                          near_impervious_lulc_array, near_road_array)
        adjustment_factor_array ==
            Assign(adjustment_factor_array0, valid_mask,
                   adjustment_factor(
                       Masked(avg_ratio_array, valid_mask),
                       Masked(near_impervious_lulc_array, valid_mask),
                       Masked(near_road_array, valid_mask)))
    IN  Assign(adjusted_ratio_array0, valid_mask,
               adjust_blend(Masked(ratio_array, valid_mask),
                            Masked(adjustment_factor_array, valid_mask)))

(***************************************************************************)
(* Inputs of the adjust_op specification                                   *)
(***************************************************************************)
\* float32 values a ratio raster can hold: nodata and ratios in [0, 1]
RatioValues == {F(FLOAT_NODATA), F(0), Rat(1, 2), F(1)}

\* values of a byte raster written by is_near: 0, 1 or the byte nodata
FlagValues == {0, 1, UINT8_NODATA}

Blocks(S) == [1..BlockLen -> S]

InitAdjust ==
    /\ pc = "start"
    /\ args \in [ratio_array : Blocks(RatioValues),
                 avg_ratio_array : Blocks(RatioValues),
                 near_impervious_lulc_array : Blocks(FlagValues),
                 near_road_array : Blocks(FlagValues)]
    /\ result = <<>>
    /\ raised = "none"

\* raster_calculator applies adjust_op to the block
AdjustOp ==
    /\ pc = "start"
    /\ pc' = "adjust_op"
    /\ result' = adjust_op(args.ratio_array, args.avg_ratio_array,
                           args.near_impervious_lulc_array,
                           args.near_road_array)
    /\ UNCHANGED <<args, raised>>

NextAdjust == AdjustOp

SpecAdjust == InitAdjust /\ [][NextAdjust]_vars

(***************************************************************************)
(* Lookup table builder (execute) and lookup_ratios                        *)
(***************************************************************************)
\* sorted(iterable) of a set of integers
RECURSIVE sorted(_)
sorted(S) ==
    IF S = {} THEN <<>>
    ELSE LET lo == CHOOSE x \in S : \A y \in S : x <= y
         IN  <<lo>> \o sorted(S \ {lo})

\* the soil groups in the order of the columns: ['a', 'b', 'c', 'd']
soil_groups == <<"a", "b", "c", "d">>

\* f'rc_{soil_group}'
rc_key(soil_group) == CASE soil_group = "a" -> "rc_a" [] soil_group = "b" -> "rc_b" [] soil_group = "c" -> "rc_c" [] soil_group = "d" -> "rc_d"

\* f'ir_{soil_group}'
ir_key(soil_group) == CASE soil_group = "a" -> "ir_a" [] soil_group = "b" -> "ir_b" [] soil_group = "c" -> "ir_c" [] soil_group = "d" -> "ir_d"

\* the retention array built from the stored runoff coefficient itself
retention_ratio_array_no_complement(biophysical_dict, sorted_lucodes) ==
    [r \in 1..Len(sorted_lucodes) |->
        [g \in 1..Len(soil_groups) |->
            biophysical_dict[sorted_lucodes[r]][rc_key(soil_groups[g])]]]

\* rows are LULC codes in sorted order, columns the soil groups in order;
\* the table stores runoff coefficients, so retention = 1 - rc
retention_ratio_array(biophysical_dict, sorted_lucodes) ==
    [r \in 1..Len(sorted_lucodes) |->
        [g \in 1..Len(soil_groups) |->
            RSub(F(1), biophysical_dict[sorted_lucodes[r]][rc_key(soil_groups[g])])]]

infiltration_ratio_array(biophysical_dict, sorted_lucodes) ==
    [r \in 1..Len(sorted_lucodes) |->
        [g \in 1..Len(soil_groups) |->
            biophysical_dict[sorted_lucodes[r]][ir_key(soil_groups[g])]]]

\* numpy.digitize(x, bins, right=True) for increasing bins: the index i with
\* bins[i-1] < x <= bins[i], that is the number of bins strictly below x
digitize(x, bins) == Cardinality({k \in 1..Len(bins) : bins[k] < x})

\* whether i is a legal numpy index into an axis of length n
index_ok(i, n) == -n <= i /\ i < n

\* the 1-based position of numpy index i in an axis of length n
index_pos(i, n) == IF i >= 0 THEN i + 1 ELSE i + n + 1

\* numpy.insert(ratio_lookup, 0, numpy.zeros(rows), axis=1)
insert_zero_column(ratio_lookup) ==
    [r \in 1..Len(ratio_lookup) |-> <<F(0)>> \o ratio_lookup[r]]

\* valid_mask of ratio_op testing the land-cover nodata only
ratio_valid_mask_lulc_only(lulc_array, lulc_nodata, soil_group_array, soil_group_nodata) ==
    [i \in 1..Len(lulc_array) |-> lulc_array[i] # lulc_nodata]

ratio_valid_mask(lulc_array, lulc_nodata, soil_group_array, soil_group_nodata) ==
    [i \in 1..Len(lulc_array) |->
        lulc_array[i] # lulc_nodata /\ soil_group_array[i] # soil_group_nodata]

\* ratio_op inside lookup_ratios; ratio_lookup already has its zero column.
\* The fancy index ratio_lookup[lulc_index, soil_group_array[valid_mask]]
\* raises IndexError when any index is out of range.
ratio_op(lulc_array, soil_group_array, lulc_nodata, soil_group_nodata, ratio_lookup, sorted_lucodes) ==
    LET output_ratio_array0 == full(Len(lulc_array), F(FLOAT_NODATA))
        valid_mask == ratio_valid_mask(lulc_array, lulc_nodata, soil_group_array, soil_group_nodata)
        lulc_v == Masked(lulc_array, valid_mask)
        soil_v == Masked(soil_group_array, valid_mask)
        lulc_index == [k \in 1..Len(lulc_v) |-> digitize(lulc_v[k], sorted_lucodes)]
        n_rows == Len(ratio_lookup)
        n_cols == Len(soil_groups) + 1
        in_range == \A k \in 1..Len(lulc_v) :
                        index_ok(lulc_index[k], n_rows) /\ index_ok(soil_v[k], n_cols)
    IN  IF in_range
        THEN [raised |-> "none",
              array |-> Assign(output_ratio_array0, valid_mask,
                            [k \in 1..Len(lulc_v) |->
                                ratio_lookup[index_pos(lulc_index[k], n_rows)]
                                            [index_pos(soil_v[k], n_cols)]])]
        ELSE [raised |-> "IndexError", array |-> <<>>]

\* lookup_ratios: raster_calculator applies ratio_op to the block and writes
\* the output raster; an exception of ratio_op propagates and nothing is
\* written
lookup_ratios(lulc_array, lulc_nodata, soil_group_array, soil_group_nodata, ratio_lookup, sorted_lucodes) ==
    ratio_op(lulc_array, soil_group_array, lulc_nodata, soil_group_nodata,
             insert_zero_column(ratio_lookup), sorted_lucodes)

(***************************************************************************)
(* Inputs of the lookup_ratios specification                               *)
(***************************************************************************)
LuCodes == 1..MaxCode

\* a sample runoff coefficient in [0, 1), different for every
\* (code, soil group) pair of the model
SampleRC(lucode, g) == Rat((4 * (lucode - 1) + (g - 1)) % 20, 20)

\* a sample infiltration coefficient in (0, 1/2]
SampleIR(lucode, g) == Rat(((4 * (lucode - 1) + (g - 1)) % 20) + 1, 40)

\* the biophysical table read by utils.build_lookup_from_csv for a set of codes
BiophysicalDict(codes) ==
    [lucode \in codes |->
        [rc_a |-> SampleRC(lucode, 1), rc_b |-> SampleRC(lucode, 2),
         rc_c |-> SampleRC(lucode, 3), rc_d |-> SampleRC(lucode, 4),
         ir_a |-> SampleIR(lucode, 1), ir_b |-> SampleIR(lucode, 2),
         ir_c |-> SampleIR(lucode, 3), ir_d |-> SampleIR(lucode, 4)]]

\* nodata values of the integer input rasters: below and above every code
NodataValues == {0, UINT8_NODATA}

\* land-cover pixel values: every possible code, one value below and one
\* above them all
LulcValues == LuCodes \cup NodataValues

\* soil group pixel values: 1..4 for groups A..D, and the nodata candidates
SoilValues == (1..Len(soil_groups)) \cup NodataValues

InitLookup ==
    /\ pc = "start"
    /\ \E codes \in (SUBSET LuCodes) \ {{}} :
       \E la \in Blocks(LulcValues), sa \in Blocks(SoilValues) :
       \E ln \in NodataValues, sn \in NodataValues :
           args = [biophysical_dict |-> BiophysicalDict(codes),
                   sorted_lucodes |-> sorted(codes),
                   lulc_array |-> la, lulc_nodata |-> ln,
                   soil_group_array |-> sa, soil_group_nodata |-> sn]
    /\ result = <<>>
    /\ raised = "none"

\* the task 'calculate stormwater retention ratio'
RetentionRatioTask ==
    /\ pc = "start"
    /\ LET r == lookup_ratios(args.lulc_array, args.lulc_nodata,
                    args.soil_group_array, args.soil_group_nodata,
                    retention_ratio_array(args.biophysical_dict, args.sorted_lucodes),
                    args.sorted_lucodes)
       IN  /\ result' = r.array
           /\ raised' = r.raised
    /\ pc' = "retention_ratio"
    /\ UNCHANGED args

\* the task 'calculate stormwater infiltration ratio', added when the first
\* row of the table has an 'ir_a' column
InfiltrationRatioTask ==
    /\ pc = "start"
    /\ "ir_a" \in DOMAIN args.biophysical_dict[args.sorted_lucodes[1]]
    /\ LET r == lookup_ratios(args.lulc_array, args.lulc_nodata,
                    args.soil_group_array, args.soil_group_nodata,
                    infiltration_ratio_array(args.biophysical_dict, args.sorted_lucodes),
                    args.sorted_lucodes)
       IN  /\ result' = r.array
           /\ raised' = r.raised
    /\ pc' = "infiltration_ratio"
    /\ UNCHANGED args

NextLookup == RetentionRatioTask \/ InfiltrationRatioTask

SpecLookup == InitLookup /\ [][NextLookup]_vars

(***************************************************************************)
(* is_near                                                                 *)
(*                                                                         *)
(* A 2D raster is a sequence of rows.  A distance raster holds the square  *)
(* of each Euclidean distance, which is an integer: for a threshold t the  *)
(* comparison d <= t is  t >= 0 /\ d*d <= t*t.                             *)
(***************************************************************************)
n_rows(raster) == Len(raster)

n_cols(raster) == Len(raster[1])

\* the pixels (row, column) of a raster
Pixels(raster) == (1..n_rows(raster)) \X (1..n_cols(raster))

\* squared centre-to-centre distance in pixels
SqDist(p, q) == (p[1] - q[1]) * (p[1] - q[1]) + (p[2] - q[2]) * (p[2] - q[2])

Min(S) == CHOOSE x \in S : \A y \in S : x <= y

\* pygeoprocessing.distance_transform_edt: for every pixel the distance to
\* the nearest '1' pixel of the input (0 at a '1' pixel); here squared
distance_transform_edt(input) ==
    [r \in 1..n_rows(input) |-> [c \in 1..n_cols(input) |->
        Min({SqDist(<<r, c>>, q) : q \in {x \in Pixels(input) : input[x[1]][x[2]] = 1}})]]

\* the threshold test with a strict comparison
lt_threshold_op(array, threshold) ==
    [r \in 1..n_rows(array) |-> [c \in 1..n_cols(array) |->
        /\ RLt(F(0), threshold)
        /\ RLt(F(array[r][c]), RMul(threshold, threshold))]]

\* lte_threshold_op: array <= threshold, on squared distances
lte_threshold_op(array, threshold) ==
    [r \in 1..n_rows(array) |-> [c \in 1..n_cols(array) |->
        /\ RLe(F(0), threshold)
        /\ RLe(F(array[r][c]), RMul(threshold, threshold))]]

\* a boolean array written to a Byte raster
AsByte(array) ==
    [r \in 1..n_rows(array) |-> [c \in 1..n_cols(array) |->
        IF array[r][c] THEN 1 ELSE 0]]

(***************************************************************************)
(* Inputs of the is_near specification                                     *)
(***************************************************************************)
\* the shapes (rows, columns) of the rasters of the model
Shapes == {shape \in (1..MaxPixels) \X (1..MaxPixels) : shape[1] * shape[2] <= MaxPixels}

\* the rasters of a shape with pixel values in S
Rasters(shape, S) == [1..shape[1] -> [1..shape[2] -> S]]

\* radii in pixels: negative, zero, between and on the pixel distances
PixelRadii == {Rat(k, 2) : k \in -1..4}

\* The source is a binary raster with at least one '1' pixel (the distance to
\* the nearest '1' pixel is defined).
InitNear ==
    /\ pc = "start"
    /\ \E shape \in Shapes : \E input \in Rasters(shape, {0, 1}) :
       \E radius \in PixelRadii :
           /\ \E x \in Pixels(input) : input[x[1]][x[2]] = 1
           /\ args = [input |-> input, radius |-> radius]
    /\ result = <<>>
    /\ raised = "none"

\* is_near, first half: the distance transform is written to distance_path
IsNearDistance ==
    /\ pc = "start"
    /\ pc' = "distance"
    /\ result' = [distance |-> distance_transform_edt(args.input)]
    /\ UNCHANGED <<args, raised>>

\* is_near, second half: raster_calculator thresholds the distance raster
\* into the Byte raster at out_path
IsNearThreshold ==
    /\ pc = "distance"
    /\ pc' = "is_near"
    /\ result' = [distance |-> result.distance,
                  out |-> AsByte(lte_threshold_op(result.distance, args.radius))]
    /\ UNCHANGED <<args, raised>>

NextNear == IsNearDistance \/ IsNearThreshold

SpecNear == InitNear /\ [][NextNear]_vars

(***************************************************************************)
(* Claims about is_near (checked under SpecNear)                           *)
(***************************************************************************)
\* pixel p is within the radius of a '1' pixel of the source
WithinRadius(p) ==
    \E q \in Pixels(args.input) :
        /\ args.input[q[1]][q[2]] = 1
        /\ RLe(F(0), args.radius)
        /\ RLe(F(SqDist(p, q)), RMul(args.radius, args.radius))

\* C7: is_near outputs 1 at a pixel iff its distance to the nearest '1'
\* source pixel is <= radius and 0 otherwise; in particular every '1' source
\* pixel is 1 in the output for any radius >= 0.
ThmC7 ==
    pc = "is_near" =>
        \A p \in Pixels(args.input) :
            /\ result.out[p[1]][p[2]] = (IF WithinRadius(p) THEN 1 ELSE 0)
            /\ (args.input[p[1]][p[2]] = 1 /\ RLe(F(0), args.radius))
                   => result.out[p[1]][p[2]] = 1

\* a pixel at distance exactly radius = 1 is near, and a pixel at a
\* larger distance (the diagonal neighbour) is not
WitC7 ==
    /\ pc = "is_near"
    /\ args.radius = F(1)
    /\ \E p, q \in Pixels(args.input) :
        /\ result.distance[p[1]][p[2]] = 1
        /\ result.out[p[1]][p[2]] = 1
        /\ result.distance[q[1]][q[2]] = 2
        /\ result.out[q[1]][q[2]] = 0

(***************************************************************************)
(* make_search_kernel and raster_average                                   *)
(***************************************************************************)
\* numpy.indices(shape) for a square shape: the pair of arrays holding the
\* index along axis 0 and the index along axis 1 of every cell (0-based)
indices(side) ==
    <<[i \in 1..side |-> [j \in 1..side |-> i - 1]],
      [i \in 1..side |-> [j \in 1..side |-> j - 1]]>>

\* whether hypot(col, row) < pixel_radius
within_radius_strict(col, row, pixel_radius) ==
    /\ RLt(F(0), pixel_radius)
    /\ RLt(F(col * col + row * row), RMul(pixel_radius, pixel_radius))

\* numpy.hypot(col, row) <= pixel_radius
within_radius(col, row, pixel_radius) ==
    /\ RLe(F(0), pixel_radius)
    /\ RLe(F(col * col + row * row), RMul(pixel_radius, pixel_radius))

\* make_search_kernel(raster_path, radius), pixel_size_x being
\* get_raster_info(raster_path)['pixel_size'][0].  numpy.indices raises
\* ValueError for a negative dimension.
make_search_kernel(pixel_size_x, radius) ==
    LET pixel_radius == RDiv(radius, pixel_size_x)
        pixel_margin == Floor(pixel_radius)
        side == pixel_margin * 2 + 1
        col_indices == [i \in 1..side |-> [j \in 1..side |->
                           indices(side)[1][i][j] - pixel_margin]]
        row_indices == [i \in 1..side |-> [j \in 1..side |->
                           indices(side)[2][i][j] - pixel_margin]]
    IN  IF side < 0
        THEN [raised |-> "ValueError", array |-> <<>>]
        ELSE [raised |-> "none",
              array |-> [i \in 1..side |-> [j \in 1..side |->
                  IF within_radius(col_indices[i][j], row_indices[i][j], pixel_radius)
                  THEN 1 ELSE 0]]]

\* the sum of the first n elements of a sequence of floats
RECURSIVE RSum(_, _)
RSum(f, n) == IF n = 0 THEN F(0) ELSE RAdd(f[n], RSum(f, n - 1))

\* pygeoprocessing.convolve_2d(signal, kernel, target, ...) for a kernel of
\* odd side, as the flags passed by raster_average select it:
\*  - the kernel is flipped and slid over the signal; nodata pixels and
\*    offsets off the edge of the raster contribute 0;
\*  - normalize_kernel divides the kernel by its sum;
\*  - ignore_nodata_and_edges divides the result by the convolution of the
\*    kernel with the mask of the pixels that are inside the raster and not
\*    nodata, wherever that is > 0;
\*  - mask_nodata sets the target to nodata where the signal is nodata.
convolve_2d(signal, signal_nodata, kernel, ignore_nodata_and_edges, normalize_kernel, mask_nodata, target_nodata) ==
    LET side == Len(kernel)
        centre == (side + 1) \div 2
        \* the sum of f over the cells of the kernel, row by row
        over_cells(f(_)) ==
            RSum([i \in 1..side |-> RSum([j \in 1..side |-> f(<<i, j>>)], side)], side)
        kernel_sum == over_cells(LAMBDA k : F(kernel[k[1]][k[2]]))
        weight(k) == IF normalize_kernel
                     THEN RDiv(F(kernel[k[1]][k[2]]), kernel_sum)
                     ELSE F(kernel[k[1]][k[2]])
        \* the signal pixel under kernel cell k when the flipped kernel is
        \* centred on p
        under(p, k) == <<p[1] - (k[1] - centre), p[2] - (k[2] - centre)>>
        is_data(q) == /\ q \in Pixels(signal)
                      /\ ~isclose(signal[q[1]][q[2]], signal_nodata)
        term(p, k) == IF is_data(under(p, k))
                      THEN RMul(weight(k), signal[under(p, k)[1]][under(p, k)[2]])
                      ELSE F(0)
        mask_term(p, k) == IF is_data(under(p, k)) THEN weight(k) ELSE F(0)
        conv(p) == over_cells(LAMBDA k : term(p, k))
        mask_conv(p) == over_cells(LAMBDA k : mask_term(p, k))
        value(p) ==
            IF mask_nodata /\ ~is_data(p) THEN target_nodata
            ELSE IF ignore_nodata_and_edges /\ RLt(F(0), mask_conv(p))
                 THEN IF normalize_kernel
                      THEN RDiv(conv(p), mask_conv(p))
                      ELSE RMul(RDiv(conv(p), mask_conv(p)), kernel_sum)
                 ELSE conv(p)
    IN  [r \in 1..n_rows(signal) |-> [c \in 1..n_cols(signal) |-> value(<<r, c>>)]]

\* raster_average with ignore_nodata_and_edges=False
raster_average_keep_edges(raster, search_kernel) ==
    convolve_2d(raster, F(FLOAT_NODATA), search_kernel, FALSE, TRUE, TRUE, F(FLOAT_NODATA))

\* raster_average with mask_nodata=False
raster_average_no_mask(raster, search_kernel) ==
    convolve_2d(raster, F(FLOAT_NODATA), search_kernel, TRUE, TRUE, FALSE, F(FLOAT_NODATA))

\* raster_average with normalize_kernel=False
raster_average_unnormalized(raster, search_kernel) ==
    convolve_2d(raster, F(FLOAT_NODATA), search_kernel, TRUE, FALSE, TRUE, F(FLOAT_NODATA))

\* raster_average after make_search_kernel: the kernel is written to
\* kernel_path and convolved with the raster, with
\* ignore_nodata_and_edges=True, normalize_kernel=True, mask_nodata=True and
\* target_nodata=FLOAT_NODATA
raster_average(raster, search_kernel) ==
    convolve_2d(raster, F(FLOAT_NODATA), search_kernel, TRUE, TRUE, TRUE, F(FLOAT_NODATA))

(***************************************************************************)
(* Inputs of the raster_average specification                              *)
(***************************************************************************)
\* values of the averaged ratio raster: nodata and the ends of [0, 1]
AverageValues == {F(FLOAT_NODATA), F(0), F(1)}

\* pairs of a radius in raster units and a pixel size: the radii in pixels
\* are -1, 0, 1/2, 1, 3/2 and 2
RadiusAndPixelSize == {<<F(-1), F(1)>>, <<F(0), F(1)>>, <<F(1), F(2)>>, <<F(1), F(1)>>, <<F(3), F(2)>>, <<F(2), F(1)>>}

InitAverage ==
    /\ pc = "start"
    /\ \E shape \in Shapes : \E raster \in Rasters(shape, AverageValues) :
       \E rp \in RadiusAndPixelSize :
           args = [raster |-> raster, radius |-> rp[1], pixel_size_x |-> rp[2]]
    /\ result = <<>>
    /\ raised = "none"

\* raster_average, first half: make_search_kernel, the kernel being written
\* to kernel_path
MakeSearchKernel ==
    /\ pc = "start"
    /\ LET k == make_search_kernel(args.pixel_size_x, args.radius)
       IN  /\ result' = [search_kernel |-> k.array]
           /\ raised' = k.raised
           /\ pc' = IF k.raised = "none" THEN "kernel" ELSE "failed"
    /\ UNCHANGED args

\* raster_average, second half: convolve_2d writes the averaged raster
RasterAverage ==
    /\ pc = "kernel"
    /\ pc' = "raster_average"
    /\ result' = [search_kernel |-> result.search_kernel,
                  out |-> raster_average(args.raster, result.search_kernel)]
    /\ UNCHANGED <<args, raised>>

NextAverage == MakeSearchKernel \/ RasterAverage

SpecAverage == InitAverage /\ [][NextAverage]_vars

(***************************************************************************)
(* Claims about make_search_kernel and raster_average (checked under       *)
(* SpecAverage)                                                            *)
(***************************************************************************)
\* the radius in pixel units
PixelRadius == RDiv(args.radius, args.pixel_size_x)

\* C8: for every radius r >= 0 in pixel units make_search_kernel returns a
\* square array of side 2*floor(r)+1 whose cell at offset (dx, dy) from the
\* centre is 1 iff dx*dx + dy*dy <= r*r and 0 otherwise; the centre cell is 1
\* and the kernel is symmetric under swapping and under negating dx and dy.
ThmC8 ==
    (pc # "start" /\ RLe(F(0), PixelRadius)) =>
        LET m == Floor(PixelRadius)
            K == result.search_kernel
        IN  /\ raised = "none"
            /\ Len(K) = 2 * m + 1
            /\ \A i \in 1..Len(K) : Len(K[i]) = 2 * m + 1
            /\ K[m + 1][m + 1] = 1
            /\ \A dx, dy \in -m..m :
                /\ K[m + 1 + dy][m + 1 + dx] =
                       (IF RLe(F(dx * dx + dy * dy), RMul(PixelRadius, PixelRadius))
                        THEN 1 ELSE 0)
                /\ K[m + 1 + dy][m + 1 + dx] = K[m + 1 + dx][m + 1 + dy]
                /\ K[m + 1 + dy][m + 1 + dx] = K[m + 1 - dy][m + 1 - dx]

\* the kernel of radius 2 pixels: side 5, the cell two columns from the
\* centre and its diagonal neighbour flagged, the corner not
WitC8 ==
    /\ pc = "kernel"
    /\ args.radius = F(2)
    /\ args.pixel_size_x = F(1)
    /\ Len(result.search_kernel) = 5
    /\ result.search_kernel[3][5] = 1
    /\ result.search_kernel[1][1] = 0
    /\ result.search_kernel[2][2] = 1

\* the pixels that contribute to the average at p: inside the raster, not
\* nodata, at a kernel-flagged offset from p
Contributors(p) ==
    LET K == result.search_kernel
        m == (Len(K) - 1) \div 2
    IN  {q \in Pixels(args.raster) :
            /\ args.raster[q[1]][q[2]] # F(FLOAT_NODATA)
            /\ Abs(q[1] - p[1]) <= m
            /\ Abs(q[2] - p[2]) <= m
            /\ K[m + 1 + (q[1] - p[1])][m + 1 + (q[2] - p[2])] = 1}

\* the number of flagged cells of the kernel
KernelCount ==
    LET K == result.search_kernel
    IN  Cardinality({k \in (1..Len(K)) \X (1..Len(K)) : K[k[1]][k[2]] = 1})

\* the sum of the source values over a set of pixels
RECURSIVE SourceSum(_)
SourceSum(S) ==
    IF S = {} THEN F(0)
    ELSE LET q == CHOOSE x \in S : TRUE
         IN  RAdd(args.raster[q[1]][q[2]], SourceSum(S \ {q}))

\* C9: at every non-nodata source pixel p raster_average outputs the sum of
\* the source values at the kernel-flagged offsets around p that are inside
\* the raster and not nodata, divided by the number of those offsets.
ThmC9 ==
    pc = "raster_average" =>
        \A p \in Pixels(args.raster) :
            args.raster[p[1]][p[2]] # F(FLOAT_NODATA) =>
                /\ Cardinality(Contributors(p)) > 0
                /\ RMul(result.out[p[1]][p[2]], F(Cardinality(Contributors(p))))
                       = SourceSum(Contributors(p))

\* a 3x3 all-ones kernel on a 1-pixel raster yields the pixel's own value
WitC9 ==
    /\ pc = "raster_average"
    /\ n_rows(args.raster) = 1
    /\ n_cols(args.raster) = 1
    /\ args.raster[1][1] = F(1)
    /\ KernelCount = 9
    /\ Len(result.search_kernel) = 3
    /\ result.out[1][1] = F(1)

\* C10: the nodata pixels of the raster_average output are exactly the
\* nodata pixels of its source.
ThmC10 ==
    pc = "raster_average" =>
        \A p \in Pixels(args.raster) :
            (result.out[p[1]][p[2]] = F(FLOAT_NODATA))
                <=> (args.raster[p[1]][p[2]] = F(FLOAT_NODATA))

\* a nodata source pixel with a valid neighbour under the kernel is nodata
\* in the output, and that neighbour, valid in the source, is not
WitC10 ==
    /\ pc = "raster_average"
    /\ \E p, q \in Pixels(args.raster) :
        /\ args.raster[p[1]][p[2]] = F(FLOAT_NODATA)
        /\ q \in Contributors(p)
        /\ result.out[p[1]][p[2]] = F(FLOAT_NODATA)
        /\ result.out[q[1]][q[2]] # F(FLOAT_NODATA)

\* every pixel of the source raster holds the same valid value
UniformSource ==
    /\ args.raster[1][1] # F(FLOAT_NODATA)
    /\ \A p \in Pixels(args.raster) : args.raster[p[1]][p[2]] = args.raster[1][1]

\* C11: if every pixel of the source raster holds the same valid value v (no
\* nodata), raster_average outputs v at every pixel for every radius >= 0,
\* the edge and corner pixels, where part of the kernel falls outside the
\* raster, included.
ThmC11 ==
    (pc = "raster_average" /\ UniformSource) =>
        \A p \in Pixels(args.raster) :
            result.out[p[1]][p[2]] = args.raster[1][1]

\* a raster of several pixels, all 1, averaged with the 5x5 kernel of radius
\* 2 pixels, most of which falls outside the raster at the corner pixel
WitC11 ==
    /\ pc = "raster_average"
    /\ UniformSource
    /\ args.raster[1][1] = F(1)
    /\ Cardinality(Pixels(args.raster)) >= 4
    /\ Len(result.search_kernel) = 5
    /\ Cardinality(Contributors(<<1, 1>>)) < KernelCount
    /\ result.out[1][1] = F(1)

(***************************************************************************)
(* Claims about lookup_ratios (checked under SpecLookup)                   *)
(***************************************************************************)
LookupDone == pc \in {"retention_ratio", "infiltration_ratio"}

TableCodes == DOMAIN args.biophysical_dict

\* pixel i is nodata in the land-cover or in the soil group raster
LookupNodataPixel(i) ==
    \/ args.lulc_array[i] = args.lulc_nodata
    \/ args.soil_group_array[i] = args.soil_group_nodata

\* pixel i holds a soil group in 1..4 and a land-cover value, neither nodata
LookupDataPixel(i) ==
    /\ ~LookupNodataPixel(i)
    /\ args.soil_group_array[i] \in 1..4

\* pixel i holds a code of the table and a soil group in 1..4, neither nodata
LookupPresentPixel(i) ==
    LookupDataPixel(i) /\ args.lulc_array[i] \in TableCodes

ThmC5 ==
    LookupDone =>
        /\ (\A i \in 1..BlockLen : LookupNodataPixel(i)) => raised = "none"
        /\ raised = "none" =>
            \A i \in 1..BlockLen :
                LookupNodataPixel(i) => result[i] = F(FLOAT_NODATA)

\* a pixel whose code is in the table is nodata in the soil raster only, its
\* soil value (255) being no column of the array, and the output is nodata
WitC5 ==
    /\ LookupDone
    /\ raised = "none"
    /\ \E i \in 1..BlockLen :
        /\ args.lulc_array[i] \in TableCodes
        /\ args.lulc_array[i] # args.lulc_nodata
        /\ args.soil_group_array[i] = UINT8_NODATA
        /\ args.soil_group_nodata = UINT8_NODATA
        /\ result[i] = F(FLOAT_NODATA)

\* C6 (as claimed): for every valid pixel whose land-cover code is absent
\* from the table, lookup_ratios does not fail and the pixel receives the
\* coefficients of the nearest table code at or above it, whether the absent
\* code is below the smallest, between two, or above the largest table code.
CexC6 ==
    pc = "retention_ratio" =>
        \A i \in 1..BlockLen :
            (LookupDataPixel(i) /\ args.lulc_array[i] \notin TableCodes) =>
                /\ raised = "none"
                /\ \E c \in TableCodes :
                    /\ c >= args.lulc_array[i]
                    /\ \A d \in TableCodes : d >= args.lulc_array[i] => c <= d
                    /\ result[i] = RSub(F(1),
                           args.biophysical_dict[c][rc_key(soil_groups[args.soil_group_array[i]])])

(***************************************************************************)
(* Claims about adjust_op (checked under SpecAdjust)                       *)
(***************************************************************************)
InUnit(x) == RLe(F(0), x) /\ RLe(x, F(1))

\* pixel i of the block is valid in all four inputs of adjust_op
AdjustValidPixel(i) ==
    /\ InUnit(args.ratio_array[i])
    /\ InUnit(args.avg_ratio_array[i])
    /\ args.near_impervious_lulc_array[i] # UINT8_NODATA
    /\ args.near_road_array[i] # UINT8_NODATA

\* C1: at every pixel valid in all four inputs, with the base ratio and the
\* neighbourhood average in [0, 1], base_ratio <= adjusted_ratio <= 1.
ThmC1 ==
    pc = "adjust_op" =>
        \A i \in 1..BlockLen :
            AdjustValidPixel(i) =>
                /\ RLe(args.ratio_array[i], result[i])
                /\ RLe(result[i], F(1))

\* a valid pixel away from roads and impervious land is moved strictly
\* between its base ratio and 1
WitC1 ==
    /\ pc = "adjust_op"
    /\ \E i \in 1..BlockLen :
        /\ AdjustValidPixel(i)
        /\ args.near_impervious_lulc_array[i] = 0
        /\ args.near_road_array[i] = 0
        /\ RLt(args.ratio_array[i], result[i])
        /\ RLt(result[i], F(1))

\* C2: at every valid pixel the adjusted ratio is base + (1 - base) * factor
\* with factor = neighbourhood average when both near flags are 0 and
\* factor = 0 when either flag is 1 (the pixel keeps exactly its base ratio).
ThmC2 ==
    pc = "adjust_op" =>
        \A i \in 1..BlockLen :
            AdjustValidPixel(i) =>
                LET base == args.ratio_array[i]
                    avg  == args.avg_ratio_array[i]
                    imp  == args.near_impervious_lulc_array[i]
                    road == args.near_road_array[i]
                IN  /\ (imp = 0 /\ road = 0) =>
                        result[i] = RAdd(base, RMul(RSub(F(1), base), avg))
                    /\ (imp = 1 \/ road = 1) => result[i] = base

\* a valid pixel near a road only, whose average would have raised it,
\* keeps its base ratio
WitC2 ==
    /\ pc = "adjust_op"
    /\ \E i \in 1..BlockLen :
        /\ AdjustValidPixel(i)
        /\ args.near_impervious_lulc_array[i] = 0
        /\ args.near_road_array[i] = 1
        /\ args.avg_ratio_array[i] = F(1)
        /\ args.ratio_array[i] = Rat(1, 2)
        /\ result[i] = Rat(1, 2)

None == <<0, 0>>

\* the truth value Python gives a float or None in `if x:`
truthy(x) == x # None /\ x[1] # 0

\* the product of the two pixel-size components with its sign kept
pixel_area_signed(pixel_size) == RMul(pixel_size[1], pixel_size[2])

\* pixel_area = abs(pixel_size[0] * pixel_size[1])
pixel_area(pixel_size) == RAbs(RMul(pixel_size[1], pixel_size[2]))

\* valid_mask of volume_op
volume_valid_mask(ratio_array, precip_array, precip_nodata) ==
    [i \in 1..Len(ratio_array) |->
        /\ ~isclose(ratio_array[i], F(FLOAT_NODATA))
        /\ truthy(precip_nodata) => ~isclose(precip_array[i], precip_nodata)]

\* the volume without the conversion from millimetres to metres
volume_product_no_conversion(precip_v, ratio_v, area) ==
    [k \in 1..Len(precip_v) |-> RMul(RMul(precip_v[k], ratio_v[k]), area)]

\* precipitation (mm/yr) * pixel area (m^2) * 0.001 (m/mm) * ratio
volume_product(precip_v, ratio_v, area) ==
    [k \in 1..Len(precip_v) |->
        RMul(RMul(RMul(precip_v[k], ratio_v[k]), area), Rat(1, 1000))]

volume_op(ratio_array, precip_array, precip_nodata, area) ==
    LET volume_array0 == full(Len(ratio_array), F(FLOAT_NODATA))
        valid_mask == volume_valid_mask(ratio_array, precip_array, precip_nodata)
    IN  Assign(volume_array0, valid_mask,
               volume_product(Masked(precip_array, valid_mask),
                              Masked(ratio_array, valid_mask), area))

retention_value_op(retention_volume_array, replacement_cost) ==
    LET value_array0 == full(Len(retention_volume_array), F(FLOAT_NODATA))
        valid_mask == [i \in 1..Len(retention_volume_array) |->
                          ~isclose(retention_volume_array[i], F(FLOAT_NODATA))]
        volume_v == Masked(retention_volume_array, valid_mask)
    IN  Assign(value_array0, valid_mask,
               [k \in 1..Len(volume_v) |-> RMul(volume_v[k], replacement_cost)])

(***************************************************************************)
(* Inputs of the volume_op specification                                   *)
(***************************************************************************)
\* precipitation in mm: dry, wet, and a negative value used as nodata
PrecipValues == {F(-1), F(0), F(100)}

\* the nodata value of the precipitation raster: none, 0 or -1
PrecipNodataValues == {None, F(0), F(-1)}

\* pixel sizes (x, y) of the land-cover raster: north-up rasters have a
\* negative y size
PixelSizes == {<<F(20), F(-20)>>, <<F(30), F(30)>>}

\* replacement costs per cubic metre; a cost of 0 is allowed
ReplacementCosts == {F(0), F(3)}

InitVolume ==
    /\ pc = "start"
    /\ args \in [ratio_array : Blocks(RatioValues),
                 precip_array : Blocks(PrecipValues),
                 precip_nodata : PrecipNodataValues,
                 pixel_size : PixelSizes,
                 replacement_cost : ReplacementCosts]
    /\ result = <<>>
    /\ raised = "none"

\* raster_calculator applies volume_op to the block, pixel_area having been
\* computed by execute from the pixel size of the land-cover raster
VolumeOp ==
    /\ pc = "start"
    /\ pc' = "volume_op"
    /\ result' = [volume |-> volume_op(args.ratio_array, args.precip_array,
                                 args.precip_nodata, pixel_area(args.pixel_size))]
    /\ UNCHANGED <<args, raised>>

\* raster_calculator applies retention_value_op to the volume block
RetentionValueOp ==
    /\ pc = "volume_op"
    /\ pc' = "retention_value_op"
    /\ result' = [volume |-> result.volume,
                  value |-> retention_value_op(result.volume, args.replacement_cost)]
    /\ UNCHANGED <<args, raised>>

NextVolume == VolumeOp \/ RetentionValueOp

SpecVolume == InitVolume /\ [][NextVolume]_vars

(***************************************************************************)
(* Claims about volume_op and retention_value_op (checked under SpecVolume)*)
(***************************************************************************)
VolumeDone == pc \in {"volume_op", "retention_value_op"}

\* the precipitation of pixel i is the nodata value of its raster
PrecipIsNodata(i) ==
    args.precip_nodata # None /\ args.precip_array[i] = args.precip_nodata

\* C12: at every pixel where the ratio and the precipitation are both valid,
\* volume_op outputs precipitation * ratio * pixel_area * 0.001, pixel_area
\* being the absolute value of the product of the two pixel-size components
\* of the land-cover raster.
ThmC12 ==
    VolumeDone =>
        \A i \in 1..BlockLen :
            (args.ratio_array[i] # F(FLOAT_NODATA) /\ ~PrecipIsNodata(i)) =>
                LET product == RMul(args.pixel_size[1], args.pixel_size[2])
                    area == IF RLt(product, F(0)) THEN RSub(F(0), product) ELSE product
                IN  RMul(result.volume[i], F(1000))
                        = RMul(RMul(args.precip_array[i], args.ratio_array[i]), area)

\* 100 mm on a 20 x -20 pixel with ratio 1/2: 100 * 1/2 * 400 * 0.001 = 20
WitC12 ==
    /\ pc = "volume_op"
    /\ args.pixel_size = <<F(20), F(-20)>>
    /\ \E i \in 1..BlockLen :
        /\ args.ratio_array[i] = Rat(1, 2)
        /\ args.precip_array[i] = F(100)
        /\ ~PrecipIsNodata(i)
        /\ result.volume[i] = F(20)

\* C14 (as claimed): volume_op outputs the float nodata at every pixel where
\* the ratio is nodata (-1) or the precipitation equals the nodata value of
\* the precipitation raster, whatever that nodata value is (0 included), and
\* retention_value_op outputs nodata at every pixel where the volume is
\* nodata.
CexC14 ==
    /\ VolumeDone =>
        \A i \in 1..BlockLen :
            (args.ratio_array[i] = F(FLOAT_NODATA) \/ PrecipIsNodata(i))
                => result.volume[i] = F(FLOAT_NODATA)
    /\ pc = "retention_value_op" =>
        \A i \in 1..BlockLen :
            result.volume[i] = F(FLOAT_NODATA) => result.value[i] = F(FLOAT_NODATA)

(***************************************************************************)
(* Retention ratio and retention volume tasks of execute, run one after    *)
(* the other with adjust_retention_ratios off: the volume is computed from *)
(* the raster written by lookup_ratios                                     *)
(***************************************************************************)
\* the 3x3 land-cover raster of the end-to-end scenario, row by row
ScenarioLulc == <<1, 1, 2, 1, 1, 2, 2, 2, 1>>

\* a biophysical table with codes 1 and 2 whose 'rc_b' column holds the
\* given values
ScenarioTable(rc_b_1, rc_b_2) ==
    [BiophysicalDict({1, 2}) EXCEPT ![1].rc_b = rc_b_1, ![2].rc_b = rc_b_2]

\* the tables of the scenario: 'rc_b' holding 0.3 and 0.6, and 'rc_b'
\* holding their complements 0.7 and 0.4
ScenarioTables ==
    {ScenarioTable(Rat(3, 10), Rat(6, 10)), ScenarioTable(Rat(7, 10), Rat(4, 10))}

InitRetention ==
    /\ pc = "start"
    /\ \E table \in ScenarioTables :
       \E la \in [1..Len(ScenarioLulc) -> {1, 2}] :
       \E ln \in NodataValues, sn \in NodataValues, pn \in PrecipNodataValues :
           args = [biophysical_dict |-> table,
                   sorted_lucodes |-> sorted(DOMAIN table),
                   lulc_array |-> la, lulc_nodata |-> ln,
                   soil_group_array |-> [i \in 1..Len(la) |-> 2],
                   soil_group_nodata |-> sn,
                   precip_array |-> [i \in 1..Len(la) |-> F(100)],
                   precip_nodata |-> pn,
                   pixel_size |-> <<F(20), F(-20)>>]
    /\ result = <<>>
    /\ raised = "none"

\* the task 'calculate stormwater retention volume' when
\* final_retention_ratio_path is retention_ratio_path: it runs after the
\* retention ratio task has written its raster
RetentionVolumeTask ==
    /\ pc = "retention_ratio"
    /\ raised = "none"
    /\ pc' = "retention_volume"
    /\ result' = volume_op(result, args.precip_array, args.precip_nodata,
                           pixel_area(args.pixel_size))
    /\ UNCHANGED <<args, raised>>

NextRetention == RetentionRatioTask \/ RetentionVolumeTask

SpecRetention == InitRetention /\ [][NextRetention]_vars

(***************************************************************************)
(* Claims about the end-to-end scenario (checked under SpecRetention)      *)
(***************************************************************************)
\* the 'rc_b' column of the table holds x for code 1 and y for code 2
TableHoldsB(x, y) ==
    /\ args.biophysical_dict[1].rc_b = x
    /\ args.biophysical_dict[2].rc_b = y

\* every code-1 pixel of the result holds v1 and every code-2 pixel v2
VolumeByCode(v1, v2) ==
    \A i \in 1..Len(args.lulc_array) :
        result[i] = (IF args.lulc_array[i] = 1 THEN v1 ELSE v2)

emc_array(biophysical_dict, sorted_lucodes) ==
    [r \in 1..Len(sorted_lucodes) |-> biophysical_dict[sorted_lucodes[r]].emc_n]

\* valid_mask of avoided_pollutant_load_op
load_valid_mask(lulc_array, lulc_nodata, retention_volume_array) ==
    [i \in 1..Len(lulc_array) |->
        /\ lulc_array[i] # lulc_nodata
        /\ ~isclose(retention_volume_array[i], F(FLOAT_NODATA))]

\* numpy.digitize runs on the whole lulc_array and emc_array[lulc_index]
\* indexes with the whole index array, before valid_mask is applied: an
\* index out of range at any pixel raises IndexError
avoided_pollutant_load_op(lulc_array, lulc_nodata, retention_volume_array, sorted_lucodes, emc) ==
    LET load_array0 == full(Len(lulc_array), F(FLOAT_NODATA))
        valid_mask == load_valid_mask(lulc_array, lulc_nodata, retention_volume_array)
        lulc_index == [i \in 1..Len(lulc_array) |-> digitize(lulc_array[i], sorted_lucodes)]
        in_range == \A i \in 1..Len(lulc_array) : index_ok(lulc_index[i], Len(emc))
        emc_of_pixel == [i \in 1..Len(lulc_array) |-> emc[index_pos(lulc_index[i], Len(emc))]]
        emc_v == Masked(emc_of_pixel, valid_mask)
        volume_v == Masked(retention_volume_array, valid_mask)
    IN  IF in_range
        THEN [raised |-> "none",
              array |-> Assign(load_array0, valid_mask,
                            [k \in 1..Len(emc_v) |->
                                RMul(RMul(emc_v[k], Rat(1, 1000)), volume_v[k])])]
        ELSE [raised |-> "IndexError", array |-> <<>>]

(***************************************************************************)
(* Inputs of the avoided_pollutant_load_op specification                   *)
(***************************************************************************)
\* a sample event mean concentration, different for every code
SampleEMC(lucode) == F(10 * lucode)

\* the 'emc_n' column of the biophysical table for a set of codes
PollutantDict(codes) == [lucode \in codes |-> [emc_n |-> SampleEMC(lucode)]]

\* values of the retention volume raster: nodata, none and some
VolumeValues == {F(FLOAT_NODATA), F(0), F(20)}

InitLoad ==
    /\ pc = "start"
    /\ \E codes \in (SUBSET LuCodes) \ {{}} :
       \E la \in Blocks(LulcValues), va \in Blocks(VolumeValues) :
       \E ln \in NodataValues :
           args = [biophysical_dict |-> PollutantDict(codes),
                   sorted_lucodes |-> sorted(codes),
                   lulc_array |-> la, lulc_nodata |-> ln,
                   retention_volume_array |-> va]
    /\ result = <<>>
    /\ raised = "none"

\* the task 'calculate avoided pollutant n load'
AvoidedLoadTask ==
    /\ pc = "start"
    /\ LET r == avoided_pollutant_load_op(args.lulc_array, args.lulc_nodata,
                    args.retention_volume_array, args.sorted_lucodes,
                    emc_array(args.biophysical_dict, args.sorted_lucodes))
       IN  /\ result' = r.array
           /\ raised' = r.raised
    /\ pc' = "avoided_load"
    /\ UNCHANGED args

NextLoad == AvoidedLoadTask

SpecLoad == InitLoad /\ [][NextLoad]_vars

(***************************************************************************)
(* Claims about avoided_pollutant_load_op (checked under SpecLoad)         *)
(***************************************************************************)
\* pixel i is nodata in the land-cover raster or in the retention volume
LoadNodataPixel(i) ==
    \/ args.lulc_array[i] = args.lulc_nodata
    \/ args.retention_volume_array[i] = F(FLOAT_NODATA)

\* C15 (as claimed): avoided_pollutant_load_op returns, for each pixel,
\* EMC[land-cover code] * 0.001 * retention_volume when the land-cover value
\* and the retention volume are not nodata, and the float nodata wherever one
\* of them is nodata, for any land-cover nodata value, one larger than every
\* code of the table included.  Stated for the blocks whose non-nodata pixels
\* all hold codes of the table.
CexC15 ==
    (/\ pc = "avoided_load"
     /\ \A i \in 1..BlockLen :
            args.lulc_array[i] = args.lulc_nodata
                \/ args.lulc_array[i] \in DOMAIN args.biophysical_dict)
    => /\ raised = "none"
       /\ \A i \in 1..BlockLen :
            IF LoadNodataPixel(i)
            THEN result[i] = F(FLOAT_NODATA)
            ELSE RMul(result[i], F(1000))
                     = RMul(args.biophysical_dict[args.lulc_array[i]].emc_n,
                            args.retention_volume_array[i])

(***************************************************************************)
(* aggregate_results                                                       *)
(*                                                                         *)
(* A raster is the sequence of its pixels; zones[i] is the FID of the      *)
(* polygon that includes pixel i, or 0 when no polygon does.  A layer is a *)
(* record of its field names and, per FID, the value of every field (None  *)
(* for a field that was never set).                                        *)
(***************************************************************************)
\* pygeoprocessing.zonal_statistics((raster_path, 1), aggregate_areas_path):
\* per FID the sum and the count of the non-nodata pixels under the polygon
zonal_statistics(raster, zones, fids) ==
    [fid \in fids |->
        LET counted == [i \in 1..Len(raster) |->
                zones[i] = fid /\ ~isclose(raster[i], F(FLOAT_NODATA))]
        IN  [sum |-> RSum([i \in 1..Len(raster) |->
                          IF counted[i] THEN raster[i] ELSE F(0)], Len(raster)),
             count |-> Rank(counted, Len(raster))]]

\* the value with 'mean' writing the sum too
aggregate_value_always_sum(op, stats) == stats.sum

\* the value written for one feature: sum / count for 'mean', 0.0 when the
\* division raises ZeroDivisionError, and the sum for 'sum'
aggregate_value(op, stats) ==
    IF op = "mean"
    THEN IF stats.count = 0 THEN F(0) ELSE RDiv(stats.sum, F(stats.count))
    ELSE stats.sum

\* aggregate_layer.CreateField on a layer that has no field of that name:
\* the field is appended, unset in every feature
CreateField(layer, field_id) ==
    [fields |-> Append(layer.fields, field_id),
     values |-> [fid \in DOMAIN layer.values |->
                    [f \in DOMAIN layer.values[fid] \cup {field_id} |->
                        IF f = field_id THEN None ELSE layer.values[fid][f]]]]

\* the loop over the features: feature.SetField(field_id, float(value)) and
\* aggregate_layer.SetFeature(feature) for every feature of the layer
SetFeatures(layer, field_id, op, aggregate_stats) ==
    [fields |-> layer.fields,
     values |-> [fid \in DOMAIN layer.values |->
                    [layer.values[fid] EXCEPT
                        ![field_id] = aggregate_value(op, aggregate_stats[fid])]]]

(***************************************************************************)
(* Inputs of the aggregate_results specification                           *)
(***************************************************************************)
\* pixel values of an aggregated raster
AggregateValues == {F(FLOAT_NODATA), F(5), F(10), F(20)}

\* the FIDs of the polygons P1 and P2
FIDs == {1, 2}

\* which polygon includes each of four pixels: three under P1 and one under
\* P2; P2 off the raster; the polygons interleaved and a pixel under none
ZoneMaps == {<<1, 1, 1, 2>>, <<1, 1, 1, 0>>, <<2, 1, 0, 1>>}

\* contents of the retention volume raster
VolumeRasters == {<<F(FLOAT_NODATA), F(FLOAT_NODATA), F(FLOAT_NODATA), F(FLOAT_NODATA)>>, <<F(10), F(20), F(FLOAT_NODATA), F(5)>>, <<F(5), F(5), F(5), F(5)>>}

\* data_to_aggregate: the first two triples of execute, in either order, or
\* one of them
AggregationLists ==
    LET ratio == [raster_path |-> "retention_ratio_path", field_id |-> "RR_mean", op |-> "mean"]
        volume == [raster_path |-> "retention_volume_path", field_id |-> "RV_sum", op |-> "sum"]
    IN  {<<ratio, volume>>, <<volume, ratio>>, <<ratio>>, <<volume>>}

\* the reprojected copy of the input polygons: without attribute fields, or
\* carrying a field named 'RR_mean' already
ZoneLayers ==
    {[fields |-> <<>>, values |-> [fid \in FIDs |-> <<>>]],
     [fields |-> <<"RR_mean">>, values |-> [fid \in FIDs |-> [RR_mean |-> F(7)]]]}

InitAggregate ==
    /\ pc = "start"
    /\ \E ratio \in [1..4 -> AggregateValues], volume \in VolumeRasters :
       \E zones \in ZoneMaps, layer \in ZoneLayers, aggregations \in AggregationLists :
           args = [rasters |-> [retention_ratio_path |-> ratio,
                                retention_volume_path |-> volume],
                   zones |-> zones, layer |-> layer, aggregations |-> aggregations]
    /\ result = <<>>
    /\ raised = "none"

\* gdal.OpenEx(aggregate_areas_path, gdal.GA_Update) and GetLayer()
OpenLayer ==
    /\ pc = "start"
    /\ pc' = "aggregations"
    /\ result' = [layer |-> args.layer, next |-> 1]
    /\ UNCHANGED <<args, raised>>

\* one pass of the loop over the aggregations.  CreateField on a name the
\* layer already has fails: it raises when osgeo exceptions are enabled in
\* the process, and otherwise returns an error code, which is not looked at,
\* after which SetField finds the existing field by its name.
AggregateTriple ==
    /\ pc = "aggregations"
    /\ result.next <= Len(args.aggregations)
    /\ LET triple == args.aggregations[result.next]
           aggregate_stats == zonal_statistics(args.rasters[triple.raster_path],
                                               args.zones, DOMAIN result.layer.values)
           exists == \E k \in 1..Len(result.layer.fields) :
                         result.layer.fields[k] = triple.field_id
           created == IF exists THEN result.layer
                      ELSE CreateField(result.layer, triple.field_id)
       IN  \/ /\ result' = [layer |-> SetFeatures(created, triple.field_id,
                                          triple.op, aggregate_stats),
                            next |-> result.next + 1]
              /\ UNCHANGED <<pc, raised>>
           \/ /\ exists
              /\ pc' = "failed"
              /\ raised' = "RuntimeError"
              /\ UNCHANGED result
    /\ UNCHANGED args

\* aggregate_layer.SyncToDisk() and the release of the dataset
SyncToDisk ==
    /\ pc = "aggregations"
    /\ result.next > Len(args.aggregations)
    /\ pc' = "done"
    /\ UNCHANGED <<args, result, raised>>

NextAggregate == OpenLayer \/ AggregateTriple \/ SyncToDisk

SpecAggregate == InitAggregate /\ [][NextAggregate]_vars

(***************************************************************************)
(* Claims about aggregate_results (checked under SpecAggregate)            *)
(***************************************************************************)
\* the non-nodata pixels of a raster under the polygon fid
ValidPixelsUnder(raster, fid) ==
    {i \in 1..Len(raster) : args.zones[i] = fid /\ raster[i] # F(FLOAT_NODATA)}

\* the sum of the pixels of a raster over a set of pixel positions
RECURSIVE PixelSum(_, _)
PixelSum(raster, S) ==
    IF S = {} THEN F(0)
    ELSE LET i == CHOOSE x \in S : TRUE
         IN  RAdd(raster[i], PixelSum(raster, S \ {i}))

\* the names of the fields the layer had before aggregate_results ran
InitialFields == {args.layer.fields[k] : k \in 1..Len(args.layer.fields)}

\* C16: for each (raster, field, statistic) triple and each polygon,
\* aggregate_results writes into the field the sum of the valid pixels under
\* the polygon when the statistic is 'sum', sum/count when it is 'mean' and
\* count > 0, and 0.0 when it is 'mean' and count = 0; a zero count never
\* fails the operation, which goes on with the remaining polygons and
\* triples.
ThmC16 ==
    pc \in {"aggregations", "done", "failed"} =>
        /\ \A k \in 1..(result.next - 1) : \A fid \in FIDs :
            LET triple == args.aggregations[k]
                raster == args.rasters[triple.raster_path]
                under == ValidPixelsUnder(raster, fid)
                value == result.layer.values[fid][triple.field_id]
            IN  /\ triple.op = "sum" => value = PixelSum(raster, under)
                /\ (triple.op = "mean" /\ under # {}) =>
                       RMul(value, F(Cardinality(under))) = PixelSum(raster, under)
                /\ (triple.op = "mean" /\ under = {}) => value = F(0)
        /\ pc = "done" => result.next = Len(args.aggregations) + 1
        /\ raised # "none" =>
               args.aggregations[result.next].field_id \in InitialFields

\* the example: {10, 20, nodata} under P1 and {5} under P2 give the means
\* 15.0 and 5.0 and the sums 30.0 and 5.0
WitC16 ==
    /\ pc = "done"
    /\ args.zones = <<1, 1, 1, 2>>
    /\ args.rasters.retention_ratio_path = <<F(10), F(20), F(FLOAT_NODATA), F(5)>>
    /\ args.rasters.retention_volume_path = <<F(10), F(20), F(FLOAT_NODATA), F(5)>>
    /\ Len(args.aggregations) = 2
    /\ result.layer.values[1].RR_mean = F(15)
    /\ result.layer.values[2].RR_mean = F(5)
    /\ result.layer.values[1].RV_sum = F(30)
    /\ result.layer.values[2].RV_sum = F(5)

\* C17 (as claimed): when aggregate_results is asked to create a field whose
\* name the layer already has, the operation is an error and the values of
\* the existing field are left unchanged: the values of a field that existed
\* before are never overwritten, and no triple naming such a field is
\* carried out.
CexC17 ==
    pc # "start" =>
        /\ \A fid \in FIDs : \A f \in InitialFields :
               result.layer.values[fid][f] = args.layer.values[fid][f]
        /\ \A k \in 1..(result.next - 1) :
               args.aggregations[k].field_id \notin InitialFields

(***************************************************************************)
(* The task graph built by execute                                         *)
(*                                                                         *)
(* A task is named by the variable execute binds it to ('avoided_load_task'*)
(* with the pollutant appended) and a file by its key in the file registry *)
(* (or by the args key of an input file).  add_task is recorded as the     *)
(* files the function reads, its target_path_list, the files the function  *)
(* writes and its dependent_task_list.                                     *)
(***************************************************************************)
add_task(task, reads, target_path_list, writes, dependent_task_list) ==
    [task |-> task, reads |-> reads, target_path_list |-> target_path_list,
     writes |-> writes, dependent_task_list |-> dependent_task_list]

\* f'avoided_pollutant_load_{pollutant}{suffix}.tif'
avoided_pollutant_load_path(pollutant) == CASE pollutant = "n" -> "avoided_pollutant_load_n" [] pollutant = "p" -> "avoided_pollutant_load_p"

\* f'avoided_{pollutant}'
avoided_field(pollutant) == CASE pollutant = "n" -> "avoided_n" [] pollutant = "p" -> "avoided_p"

\* the avoided_load_task of a pollutant
avoided_load_task(pollutant) == CASE pollutant = "n" -> "avoided_load_task_n" [] pollutant = "p" -> "avoided_load_task_p"

\* the rasterize task depending on the reprojection alone
rasterize_dependent_task_list_roads_only == {"reproject_roads_task"}

\* dependent_task_list of rasterize_centerlines_task
rasterize_dependent_task_list == {"make_raster_task", "reproject_roads_task"}

\* the adjust task not waiting for the near-road raster
adjust_dependent_task_list_no_road == {"retention_ratio_task", "average_ratios_task", "near_impervious_lulc_task"}

\* the adjust task waiting also for the volume task, which is added after it
adjust_dependent_task_list_with_volume == {"retention_ratio_task", "average_ratios_task", "near_impervious_lulc_task", "near_road_task", "retention_volume_task"}

\* dependent_task_list of adjust_retention_ratio_task
adjust_dependent_task_list == {"retention_ratio_task", "average_ratios_task", "near_impervious_lulc_task", "near_road_task"}

\* the tasks added when args['adjust_retention_ratios'] is true
adjust_tasks ==
    <<add_task("reproject_roads_task", {"road_centerlines_path"},
               {"reprojected_centerlines_path"}, {"reprojected_centerlines_path"}, {}),
      add_task("make_raster_task", {"lulc_aligned_path"},
               {"rasterized_centerlines_path"}, {"rasterized_centerlines_path"},
               {"align_task"}),
      add_task("rasterize_centerlines_task",
               {"reprojected_centerlines_path", "rasterized_centerlines_path"},
               {"rasterized_centerlines_path"}, {"rasterized_centerlines_path"},
               rasterize_dependent_task_list),
      add_task("near_road_task", {"rasterized_centerlines_path"},
               {"road_distance_path", "near_road_path"},
               {"road_distance_path", "near_road_path"},
               {"rasterize_centerlines_task"}),
      add_task("impervious_lulc_task", {"lulc_aligned_path"},
               {"impervious_lulc_path"}, {"impervious_lulc_path"}, {"align_task"}),
      add_task("near_impervious_lulc_task", {"impervious_lulc_path"},
               {"impervious_lulc_distance_path", "near_impervious_lulc_path"},
               {"impervious_lulc_distance_path", "near_impervious_lulc_path"},
               {"impervious_lulc_task"}),
      add_task("average_ratios_task", {"retention_ratio_path"},
               {"ratio_average_path"}, {"search_kernel_path", "ratio_average_path"},
               {"retention_ratio_task"}),
      add_task("adjust_retention_ratio_task",
               {"retention_ratio_path", "ratio_average_path",
                "near_impervious_lulc_path", "near_road_path"},
               {"adjusted_retention_ratio_path"}, {"adjusted_retention_ratio_path"},
               adjust_dependent_task_list)>>

\* the tasks added when the table has an 'ir_a' column
infiltration_tasks ==
    <<add_task("infiltration_ratio_task", {"lulc_aligned_path", "soil_group_aligned_path"},
               {"infiltration_ratio_path"}, {"infiltration_ratio_path"}, {"align_task"}),
      add_task("infiltration_volume_task",
               {"infiltration_ratio_path", "precipitation_aligned_path"},
               {"infiltration_volume_path"}, {"infiltration_volume_path"},
               {"align_task", "infiltration_ratio_task"})>>

\* the task added for every pollutant of the table
avoided_load_tasks(pollutants) ==
    [k \in 1..Len(pollutants) |->
        add_task(avoided_load_task(pollutants[k]),
                 {"lulc_aligned_path", "retention_volume_path"},
                 {avoided_pollutant_load_path(pollutants[k])},
                 {avoided_pollutant_load_path(pollutants[k])},
                 {"retention_volume_task"})]

\* the task added when a replacement cost is given
valuation_tasks ==
    <<add_task("valuation_task", {"retention_volume_path"},
               {"retention_value_path"}, {"retention_value_path"},
               {"retention_volume_task"})>>

\* one (raster path, field, op) triple of data_to_aggregate
aggregation(raster_path, field_id, op) ==
    [raster_path |-> raster_path, field_id |-> field_id, op |-> op]

\* data_to_aggregate as execute has built it when it reaches the aggregation
data_to_aggregate(config) ==
    <<aggregation("retention_ratio_path", "RR_mean", "mean"),
      aggregation("retention_volume_path", "RV_sum", "sum")>>
    \o (IF config.infiltration
        THEN <<aggregation("infiltration_ratio_path", "IR_mean", "mean"),
               aggregation("infiltration_volume_path", "IV_sum", "sum")>>
        ELSE <<>>)
    \o [k \in 1..Len(config.pollutants) |->
           aggregation(avoided_pollutant_load_path(config.pollutants[k]),
                       avoided_field(config.pollutants[k]), "sum")]
    \o (IF config.valuation
        THEN <<aggregation("retention_value_path", "val_sum", "sum")>>
        ELSE <<>>)

\* the aggregation waiting for the rasters only
aggregation_task_dependencies_rasters_only(config) ==
    {"retention_volume_task"}
    \cup (IF config.infiltration THEN {"infiltration_volume_task"} ELSE {})
    \cup {avoided_load_task(config.pollutants[k]) : k \in 1..Len(config.pollutants)}
    \cup (IF config.valuation THEN {"valuation_task"} ELSE {})

\* aggregation_task_dependencies as execute has built it when it adds the
\* aggregation task
aggregation_task_dependencies(config) ==
    {"retention_volume_task"}
    \cup (IF config.infiltration THEN {"infiltration_volume_task"} ELSE {})
    \cup {avoided_load_task(config.pollutants[k]) : k \in 1..Len(config.pollutants)}
    \cup (IF config.valuation THEN {"valuation_task"} ELSE {})
    \cup {"reproject_aggregate_areas_task"}

\* the tasks added when args['aggregate_areas_path'] is given
aggregate_tasks(config) ==
    <<add_task("reproject_aggregate_areas_task", {"aggregate_areas_path"},
               {"reprojected_aggregate_areas_path"},
               {"reprojected_aggregate_areas_path"}, {}),
      add_task("aggregate_results_task",
               {"reprojected_aggregate_areas_path"}
                   \cup {data_to_aggregate(config)[k].raster_path :
                            k \in 1..Len(data_to_aggregate(config))},
               {"reprojected_aggregate_areas_path"},
               {"reprojected_aggregate_areas_path"},
               aggregation_task_dependencies(config))>>

\* execute: the tasks in the order add_task is called
execute(config) ==
    LET final_retention_ratio_path ==
            IF config.adjust THEN "adjusted_retention_ratio_path"
            ELSE "retention_ratio_path"
        final_retention_ratio_task ==
            IF config.adjust THEN "adjust_retention_ratio_task"
            ELSE "retention_ratio_task"
    IN  <<add_task("align_task",
                   {"lulc_path", "soil_group_path", "precipitation_path"},
                   {"lulc_aligned_path", "soil_group_aligned_path", "precipitation_aligned_path"},
                   {"lulc_aligned_path", "soil_group_aligned_path", "precipitation_aligned_path"},
                   {}),
          add_task("retention_ratio_task",
                   {"lulc_aligned_path", "soil_group_aligned_path"},
                   {"retention_ratio_path"}, {"retention_ratio_path"}, {"align_task"})>>
        \o (IF config.adjust THEN adjust_tasks ELSE <<>>)
        \o <<add_task("retention_volume_task",
                      {final_retention_ratio_path, "precipitation_aligned_path"},
                      {"retention_volume_path"}, {"retention_volume_path"},
                      {"align_task", final_retention_ratio_task})>>
        \o (IF config.infiltration THEN infiltration_tasks ELSE <<>>)
        \o avoided_load_tasks(config.pollutants)
        \o (IF config.valuation THEN valuation_tasks ELSE <<>>)
        \o (IF config.aggregate THEN aggregate_tasks(config) ELSE <<>>)

(***************************************************************************)
(* Execution of the task graph                                             *)
(*                                                                         *)
(* pc maps every task to "pending", "running" or "done", result.files maps *)
(* every file to "absent", "partial" or "complete", and result.fields      *)
(* lists the fields aggregate_results has appended to the zone layer.  Any *)
(* number of tasks may run at once: a TaskGraph with fewer workers runs a  *)
(* subset of these schedules.                                              *)
(***************************************************************************)
\* the pollutants of the table, in column order
PollutantLists == {<<>>, <<"n">>, <<"n", "p">>}

\* the optional branches of execute
Configs ==
    [adjust : BOOLEAN, infiltration : BOOLEAN, pollutants : PollutantLists,
     valuation : BOOLEAN, aggregate : BOOLEAN]

\* the names of the tasks of a graph
TaskNames(task_graph) == {task_graph[k].task : k \in 1..Len(task_graph)}

\* the files some task of the graph writes
ProducedFiles(task_graph) == UNION {task_graph[k].writes : k \in 1..Len(task_graph)}

\* the files some task of the graph reads
ReadFiles(task_graph) == UNION {task_graph[k].reads : k \in 1..Len(task_graph)}

InitGraph ==
    /\ \E config \in Configs :
        /\ args = [config |-> config, task_graph |-> execute(config),
                   data_to_aggregate |-> data_to_aggregate(config)]
        /\ pc = [task \in TaskNames(execute(config)) |-> "pending"]
        /\ result = [files |-> [f \in ProducedFiles(execute(config)) \cup ReadFiles(execute(config)) |->
                                   IF f \in ProducedFiles(execute(config))
                                   THEN "absent" ELSE "complete"],
                     fields |-> <<>>]
    /\ raised = "none"

\* a worker takes a task whose dependent tasks have all completed and
\* calls its function, which starts writing its files
StartTask ==
    \E k \in 1..Len(args.task_graph) :
        LET t == args.task_graph[k]
        IN  /\ pc[t.task] = "pending"
            /\ \A d \in t.dependent_task_list : pc[d] = "done"
            /\ pc' = [pc EXCEPT ![t.task] = "running"]
            /\ result' = [result EXCEPT !.files =
                   [f \in DOMAIN result.files |->
                       IF f \in t.writes THEN "partial" ELSE result.files[f]]]
            /\ UNCHANGED <<args, raised>>

\* aggregate_results, one pass of its loop: the field of the next triple is
\* appended to the zone layer
AppendField ==
    /\ "aggregate_results_task" \in DOMAIN pc
    /\ pc["aggregate_results_task"] = "running"
    /\ Len(result.fields) < Len(args.data_to_aggregate)
    /\ result' = [result EXCEPT !.fields =
           Append(result.fields, args.data_to_aggregate[Len(result.fields) + 1].field_id)]
    /\ UNCHANGED <<pc, args, raised>>

\* the function of a running task returns, its files written in full
FinishTask ==
    \E k \in 1..Len(args.task_graph) :
        LET t == args.task_graph[k]
        IN  /\ pc[t.task] = "running"
            /\ t.task = "aggregate_results_task"
                   => Len(result.fields) = Len(args.data_to_aggregate)
            /\ pc' = [pc EXCEPT ![t.task] = "done"]
            /\ result' = [result EXCEPT !.files =
                   [f \in DOMAIN result.files |->
                       IF f \in t.writes THEN "complete" ELSE result.files[f]]]
            /\ UNCHANGED <<args, raised>>

NextGraph == StartTask \/ AppendField \/ FinishTask

SpecGraph == InitGraph /\ [][NextGraph]_vars

\* the tasks of the graph that write file f
Producers(f) ==
    {args.task_graph[k].task :
        k \in {j \in 1..Len(args.task_graph) : f \in args.task_graph[j].writes}}

(***************************************************************************)
(* Claims about the task graph (checked under SpecGraph)                   *)
(***************************************************************************)
\* the add_task record of a task of the graph
TaskNamed(task) ==
    args.task_graph[CHOOSE k \in 1..Len(args.task_graph) : args.task_graph[k].task = task]

\* task p is a direct or transitive declared dependency of task t
RECURSIVE DependsOn(_, _)
DependsOn(t, p) ==
    \/ p \in TaskNamed(t).dependent_task_list
    \/ \E d \in TaskNamed(t).dependent_task_list : DependsOn(d, p)

\* the tasks that write f or name it in their target_path_list
Writers(f) ==
    {args.task_graph[k].task :
        k \in {j \in 1..Len(args.task_graph) :
                  f \in args.task_graph[j].writes \cup args.task_graph[j].target_path_list}}

\* C18: for every configuration of the optional branches and every
\* execution order that respects the declared dependent_task_list edges, a
\* task that has started finds every file it reads that the pipeline produces
\* completely written: each producer of the file is a direct or transitive
\* declared dependency of the reader and has completed.
ThmC18 ==
    \A t \in DOMAIN pc :
        pc[t] # "pending" =>
            \A f \in TaskNamed(t).reads :
                /\ \A p \in Producers(f) \ {t} : DependsOn(t, p) /\ pc[p] = "done"
                /\ (pc[t] = "running" /\ f \notin TaskNamed(t).writes)
                       => result.files[f] = "complete"

\* the adjust task runs on its four complete input rasters while the
\* reprojection of the aggregate areas has not started
WitC18 ==
    /\ args.config.adjust
    /\ args.config.aggregate
    /\ pc["adjust_retention_ratio_task"] = "running"
    /\ pc["reproject_aggregate_areas_task"] = "pending"
    /\ result.files["near_road_path"] = "complete"
    /\ result.files["ratio_average_path"] = "complete"
    /\ result.files["adjusted_retention_ratio_path"] = "partial"

\* C19 (as claimed): every raster file has exactly one producing task: no
\* raster path is in the target_path_list of, or is written by, two
\* different tasks, the zone feature layer being the only file written by
\* more than one task.
CexC19 ==
    \A f \in ProducedFiles(args.task_graph) \ {"reprojected_aggregate_areas_path"} :
        Cardinality(Writers(f)) = 1

\* C19 (amended): every file the pipeline produces other than the zone
\* feature layer and the rasterized centerlines raster has exactly one
\* producing task; the rasterized centerlines raster is the target of two
\* tasks, make_raster_task which creates it and rasterize_centerlines_task
\* which burns the roads into it, the second a declared dependent of the
\* first; and no two tasks ever write the same file at the same time.
ThmC19 ==
    /\ \A f \in ProducedFiles(args.task_graph) \
                   {"reprojected_aggregate_areas_path", "rasterized_centerlines_path"} :
           Cardinality(Writers(f)) = 1
    /\ args.config.adjust =>
        /\ Writers("rasterized_centerlines_path")
               = {"make_raster_task", "rasterize_centerlines_task"}
        /\ "make_raster_task" \in TaskNamed("rasterize_centerlines_task").dependent_task_list
        /\ pc["rasterize_centerlines_task"] # "pending" => pc["make_raster_task"] = "done"
    /\ \A f \in ProducedFiles(args.task_graph) :
           Cardinality({t \in Producers(f) : pc[t] = "running"}) <= 1

\* rasterize_centerlines_task is writing into the raster that
\* make_raster_task has created
WitC19 ==
    /\ args.config.adjust
    /\ pc["make_raster_task"] = "done"
    /\ pc["rasterize_centerlines_task"] = "running"
    /\ result.files["rasterized_centerlines_path"] = "partial"

\* the field names of the first n triples of data_to_aggregate
FirstFields(n) == [k \in 1..n |-> args.data_to_aggregate[k].field_id]

\* C20: writes to the zone feature layer never overlap in time: the
\* reprojection task that creates the layer has completed before the
\* aggregation starts, and the fields are appended one after another, in the
\* order of data_to_aggregate, by the one aggregation task while it runs.
ThmC20 ==
    args.config.aggregate =>
        /\ Cardinality({t \in Producers("reprojected_aggregate_areas_path") :
                           pc[t] = "running"}) <= 1
        /\ pc["aggregate_results_task"] # "pending"
               => pc["reproject_aggregate_areas_task"] = "done"
        /\ pc["aggregate_results_task"] = "pending" => result.fields = <<>>
        /\ Len(result.fields) <= Len(args.data_to_aggregate)
        /\ result.fields = FirstFields(Len(result.fields))
        /\ pc["aggregate_results_task"] = "done"
               => Len(result.fields) = Len(args.data_to_aggregate)

\* the aggregation task is part-way through its triples, on the layer the
\* reprojection has written
WitC20 ==
    /\ args.config.aggregate
    /\ pc["aggregate_results_task"] = "running"
    /\ pc["reproject_aggregate_areas_task"] = "done"
    /\ result.fields = <<"RR_mean", "RV_sum">>
    /\ Len(args.data_to_aggregate) > 2
    /\ result.files["reprojected_aggregate_areas_path"] = "partial"

(***************************************************************************)
(* The adjustment branch of execute, task after task on one small raster:  *)
(* retention ratio, near impervious land cover, near roads, neighbourhood  *)
(* average and adjusted ratio.  The tasks run here in one of the orders    *)
(* their dependencies allow; each is a function of the files it reads.     *)
(***************************************************************************)
\* a 2D raster as the sequence of its pixels, row by row
Flatten(raster) ==
    [i \in 1..(n_rows(raster) * n_cols(raster)) |->
        raster[((i - 1) \div n_cols(raster)) + 1][((i - 1) % n_cols(raster)) + 1]]

\* the 2D raster with the shape of `like` holding the pixels of a sequence
Unflatten(array, like) ==
    [r \in 1..n_rows(like) |-> [c \in 1..n_cols(like) |->
        array[(r - 1) * n_cols(like) + c]]]

\* is_impervious_map: 1 if biophysical_dict[lucode]['is_impervious'] else 0
is_impervious_map(biophysical_dict) ==
    [lucode \in DOMAIN biophysical_dict |->
        IF biophysical_dict[lucode].is_impervious THEN 1 ELSE 0]

\* pygeoprocessing.reclassify_raster((lulc, 1), value_map, target, GDT_Byte,
\* UINT8_NODATA): nodata pixels become the target nodata, the others their
\* mapped value
reclassify_raster(raster, raster_nodata, value_map, target_nodata) ==
    [r \in 1..n_rows(raster) |-> [c \in 1..n_cols(raster) |->
        IF raster[r][c] = raster_nodata THEN target_nodata
        ELSE value_map[raster[r][c]]]]

\* is_near(input_path, radius, distance_path, out_path)
is_near(input, radius) ==
    AsByte(lte_threshold_op(distance_transform_edt(input), radius))

\* a biophysical table whose runoff coefficients are 0, 1/2 and 1 for the
\* codes 1, 2 and 3 on every soil group, code 2 being impervious
UnitTable ==
    [lucode \in 1..3 |->
        LET rc == Rat(lucode - 1, 2)
        IN  [rc_a |-> rc, rc_b |-> rc, rc_c |-> rc, rc_d |-> rc,
             is_impervious |-> (lucode = 2)]]

\* shapes of the rasters of the adjustment run
AdjustmentShapes == {<<1, 1>>, <<1, 2>>, <<2, 1>>, <<1, 3>>, <<2, 2>>}

\* the retention radius and the pixel size: radii of -1, 0, 1 and 3/2 pixels
AdjustmentRadii == {<<F(-1), F(1)>>, <<F(0), F(1)>>, <<F(1), F(1)>>, <<F(3), F(2)>>}

\* The aligned land cover holds codes of the table or its nodata 0 and at
\* least one impervious pixel; the rasterized centerlines hold at least one
\* road pixel (the distance to the nearest '1' pixel is defined).
InitAdjustment ==
    /\ pc = "start"
    /\ \E shape \in AdjustmentShapes :
       \E lulc \in Rasters(shape, 0..3), roads \in Rasters(shape, {0, 1}) :
       \E rp \in AdjustmentRadii :
           /\ \E x \in Pixels(lulc) : lulc[x[1]][x[2]] = 2
           /\ \E x \in Pixels(roads) : roads[x[1]][x[2]] = 1
           /\ args = [biophysical_dict |-> UnitTable,
                      sorted_lucodes |-> sorted(DOMAIN UnitTable),
                      lulc |-> lulc, lulc_nodata |-> 0,
                      soil_group |-> [r \in 1..shape[1] |-> [c \in 1..shape[2] |-> 2]],
                      soil_group_nodata |-> UINT8_NODATA,
                      rasterized_centerlines |-> roads,
                      radius |-> rp[1], pixel_size_x |-> rp[2]]
    /\ result = <<>>
    /\ raised = "none"

\* retention_ratio_task
RetentionRatioRaster ==
    /\ pc = "start"
    /\ LET r == lookup_ratios(Flatten(args.lulc), args.lulc_nodata,
                    Flatten(args.soil_group), args.soil_group_nodata,
                    retention_ratio_array(args.biophysical_dict, args.sorted_lucodes),
                    args.sorted_lucodes)
       IN  /\ r.raised = "none"
           /\ result' = [retention_ratio |-> Unflatten(r.array, args.lulc)]
    /\ pc' = "retention_ratio_task"
    /\ UNCHANGED <<args, raised>>

\* impervious_lulc_task followed by near_impervious_lulc_task
NearImperviousLulc ==
    /\ pc = "retention_ratio_task"
    /\ pc' = "near_impervious_lulc_task"
    /\ LET impervious_lulc == reclassify_raster(args.lulc, args.lulc_nodata,
                                  is_impervious_map(args.biophysical_dict), UINT8_NODATA)
       IN  result' = [retention_ratio |-> result.retention_ratio,
                      near_impervious_lulc |->
                          is_near(impervious_lulc, RDiv(args.radius, args.pixel_size_x))]
    /\ UNCHANGED <<args, raised>>

\* near_road_task on the raster written by rasterize_centerlines_task
NearRoad ==
    /\ pc = "near_impervious_lulc_task"
    /\ pc' = "near_road_task"
    /\ result' = [retention_ratio |-> result.retention_ratio,
                  near_impervious_lulc |-> result.near_impervious_lulc,
                  near_road |-> is_near(args.rasterized_centerlines,
                                        RDiv(args.radius, args.pixel_size_x))]
    /\ UNCHANGED <<args, raised>>

\* average_ratios_task: raster_average builds the kernel and convolves; an
\* exception of make_search_kernel ends the task and the run
AverageRatios ==
    /\ pc = "near_road_task"
    /\ LET k == make_search_kernel(args.pixel_size_x, args.radius)
       IN  IF k.raised = "none"
           THEN /\ pc' = "average_ratios_task"
                /\ result' = [retention_ratio |-> result.retention_ratio,
                              near_impervious_lulc |-> result.near_impervious_lulc,
                              near_road |-> result.near_road,
                              ratio_average |-> raster_average(result.retention_ratio, k.array)]
                /\ UNCHANGED raised
           ELSE /\ pc' = "failed"
                /\ raised' = k.raised
                /\ UNCHANGED result
    /\ UNCHANGED args

\* adjust_retention_ratio_task
AdjustRetentionRatio ==
    /\ pc = "average_ratios_task"
    /\ pc' = "adjust_retention_ratio_task"
    /\ result' = [retention_ratio |-> result.retention_ratio,
                  near_impervious_lulc |-> result.near_impervious_lulc,
                  near_road |-> result.near_road,
                  ratio_average |-> result.ratio_average,
                  adjusted_retention_ratio |->
                      Unflatten(adjust_op(Flatten(result.retention_ratio),
                                          Flatten(result.ratio_average),
                                          Flatten(result.near_impervious_lulc),
                                          Flatten(result.near_road)),
                                args.lulc)]
    /\ UNCHANGED <<args, raised>>

NextAdjustment ==
    \/ RetentionRatioRaster
    \/ NearImperviousLulc
    \/ NearRoad
    \/ AverageRatios
    \/ AdjustRetentionRatio

SpecAdjustment == InitAdjustment /\ [][NextAdjustment]_vars

(***************************************************************************)
(* Claims about the adjustment run (checked under SpecAdjustment)          *)
(***************************************************************************)
\* C21 (as claimed): when adjustment is enabled and the retention radius is
\* zero or negative, the run fails and no adjusted retention ratio raster is
\* produced; a radius of 0 is rejected just as a negative radius is.
CexC21 ==
    RLe(args.radius, F(0)) =>
        /\ pc # "adjust_retention_ratio_task"
        /\ pc # "average_ratios_task"


\* a ratio in [0, 1] that no later mask takes for nodata
UnitRatio(v) == RLe(F(0), v) /\ RLe(v, F(1)) /\ ~isclose(v, F(FLOAT_NODATA))

\* the pixels whose land cover is a code of the table
ValidPixels == {x \in Pixels(args.lulc) : args.lulc[x[1]][x[2]] # args.lulc_nodata}

\* C27: when every runoff coefficient of the table lies in [0, 1], the base
\* retention ratio, the neighbourhood average, the adjustment factor and the
\* adjusted ratio lie in [0, 1] at every valid pixel, so that none of them is
\* close to the nodata value -1.
ThmC27 ==
    \A x \in ValidPixels :
        /\ pc \in {"retention_ratio_task", "near_impervious_lulc_task", "near_road_task",
                   "average_ratios_task", "adjust_retention_ratio_task", "failed"}
              => UnitRatio(result.retention_ratio[x[1]][x[2]])
        /\ pc \in {"average_ratios_task", "adjust_retention_ratio_task"}
              => /\ UnitRatio(result.ratio_average[x[1]][x[2]])
                 /\ UnitRatio(adjustment_factor(<<result.ratio_average[x[1]][x[2]]>>,
                                             <<result.near_impervious_lulc[x[1]][x[2]]>>,
                                             <<result.near_road[x[1]][x[2]]>>)[1])
        /\ pc = "adjust_retention_ratio_task"
              => UnitRatio(result.adjusted_retention_ratio[x[1]][x[2]])

\* a run in which the adjustment raised the ratio of a valid pixel, next to a
\* pixel without land cover
WitC27 ==
    /\ pc = "adjust_retention_ratio_task"
    /\ \E x \in ValidPixels :
          RLt(result.retention_ratio[x[1]][x[2]],
              result.adjusted_retention_ratio[x[1]][x[2]])
    /\ ValidPixels # Pixels(args.lulc)


(***************************************************************************)
(* The optional branches of execute, decided from its arguments and from   *)
(* the columns of the biophysical table.  An argument is "absent" when the *)
(* key is not in args, "None" and "" when it holds None or the empty       *)
(* string, and otherwise the text of its value.                            *)
(***************************************************************************)
\* key.startswith('emc_')
startswith_emc(key) == key \in {"emc_n", "emc_p"}

\* key[4:]
strip_emc(key) == CASE key = "emc_n" -> "n" [] key = "emc_p" -> "p"

\* [key[4:] for key in next(iter(biophysical_dict.values()))
\*  if key.startswith('emc_')]
pollutants(columns) ==
    LET emc_columns == SelectSeq(columns, startswith_emc)
    IN  [k \in 1..Len(emc_columns) |-> strip_emc(emc_columns[k])]

\* 'ir_a' in next(iter(biophysical_dict.values()))
infiltration_detected(columns) == \E k \in 1..Len(columns) : columns[k] = "ir_a"

\* a valuation that runs only for a cost that is true as a condition
replacement_cost_defined_truthy(run_args) ==
    run_args.replacement_cost \notin {"absent", "None", "", "0"}

\* 'replacement_cost' in args and args['replacement_cost'] not in [None, '']
replacement_cost_defined(run_args) ==
    /\ run_args.replacement_cost # "absent"
    /\ run_args.replacement_cost \notin {"None", ""}

\* 'aggregate_areas_path' in args and args['aggregate_areas_path']
aggregate_areas_defined(run_args) ==
    /\ run_args.aggregate_areas_path # "absent"
    /\ run_args.aggregate_areas_path \notin {"None", ""}

\* the branches execute takes for its arguments
branches(run_args) ==
    [adjust |-> run_args.adjust_retention_ratios,
     infiltration |-> infiltration_detected(run_args.columns),
     pollutants |-> pollutants(run_args.columns),
     valuation |-> replacement_cost_defined(run_args),
     aggregate |-> aggregate_areas_defined(run_args)]

\* the columns of the biophysical table: the runoff coefficients, and
\* optionally the four infiltration coefficients and the EMC columns
ColumnLists ==
    {<<"lucode", "rc_a", "rc_b", "rc_c", "rc_d">> \o ir \o emc :
        ir \in {<<>>, <<"ir_a", "ir_b", "ir_c", "ir_d">>},
        emc \in {<<>>, <<"emc_n">>, <<"emc_p">>, <<"emc_n", "emc_p">>, <<"emc_p", "emc_n">>}}

RunArgs ==
    [adjust_retention_ratios : BOOLEAN,
     columns : ColumnLists,
     replacement_cost : {"absent", "None", "", "0", "3"},
     aggregate_areas_path : {"absent", "", "watersheds.gpkg"}]

InitExecute ==
    /\ pc = "start"
    /\ args \in RunArgs
    /\ result = <<>>
    /\ raised = "none"

\* execute up to task_graph.join(): every add_task call has been made
AddTasks ==
    /\ pc = "start"
    /\ pc' = "added"
    /\ result' = [task_graph |-> execute(branches(args)),
                  data_to_aggregate |-> data_to_aggregate(branches(args))]
    /\ UNCHANGED <<args, raised>>

SpecExecute == InitExecute /\ [][AddTasks]_vars

(***************************************************************************)
(* Claims about the branches of execute (checked under SpecExecute)        *)
(***************************************************************************)
\* the number of tasks of the graph with a name
TaskCount(task) ==
    Cardinality({k \in 1..Len(result.task_graph) : result.task_graph[k].task = task})

\* the number of triples of data_to_aggregate with a field
FieldCount(field_id) ==
    Cardinality({k \in 1..Len(result.data_to_aggregate) :
                    result.data_to_aggregate[k].field_id = field_id})

HasColumn(column) == \E k \in 1..Len(args.columns) : args.columns[k] = column

\* C22: execute adds the infiltration ratio and volume tasks and the IR_mean
\* and IV_sum aggregations exactly when the table has infiltration
\* coefficients; one pollutant load task and one avoided_<pollutant>
\* aggregation for every EMC column; the valuation task and val_sum exactly
\* when a replacement cost is given, a cost of 0 included; each whatever the
\* other branches are.
ThmC22 ==
    pc = "added" =>
        /\ \A t \in {"infiltration_ratio_task", "infiltration_volume_task"} :
              TaskCount(t) = IF HasColumn("ir_a") THEN 1 ELSE 0
        /\ \A f \in {"IR_mean", "IV_sum"} :
              FieldCount(f) = IF HasColumn("ir_a") THEN 1 ELSE 0
        /\ \A p \in {"n", "p"} :
              LET column == IF p = "n" THEN "emc_n" ELSE "emc_p"
              IN  /\ TaskCount(avoided_load_task(p)) = IF HasColumn(column) THEN 1 ELSE 0
                  /\ FieldCount(avoided_field(p)) = IF HasColumn(column) THEN 1 ELSE 0
        /\ LET supplied == args.replacement_cost \in {"0", "3"}
           IN  /\ TaskCount("valuation_task") = IF supplied THEN 1 ELSE 0
               /\ FieldCount("val_sum") = IF supplied THEN 1 ELSE 0

\* a run with a replacement cost of 0 and a table with one EMC column and no
\* infiltration coefficients
WitC22 ==
    /\ pc = "added"
    /\ args.replacement_cost = "0"
    /\ TaskCount("valuation_task") = 1
    /\ ~HasColumn("ir_a")
    /\ HasColumn("emc_p") /\ ~HasColumn("emc_n")


(***************************************************************************)
(* The dense arrays built from a table whose rows may lack coefficients.   *)
(* utils.build_lookup_from_csv is not part of the sources at hand: the     *)
(* table is the mapping from land-cover code to a record of coefficients   *)
(* of the Coefficient Table, and a code that lacks a value is a record     *)
(* without that key.                                                       *)
(***************************************************************************)
\* dict.get(key, 0): a default in place of the missing value
dict_get_default(row, key) ==
    [raised |-> "none", value |-> IF key \in DOMAIN row THEN row[key] ELSE F(0)]

\* biophysical_dict[lucode][key]: the value, or KeyError
dict_getitem(row, key) ==
    IF key \in DOMAIN row
    THEN [raised |-> "none", value |-> row[key]]
    ELSE [raised |-> "KeyError", value |-> None]

\* the nested list comprehension over sorted_lucodes and ['a', 'b', 'c', 'd']
\* handed to numpy.array: the first failing lookup ends it
coefficient_rows(biophysical_dict, sorted_lucodes, keys) ==
    LET cell(r, g) == dict_getitem(biophysical_dict[sorted_lucodes[r]], keys[g])
    IN  IF \E r \in 1..Len(sorted_lucodes), g \in 1..Len(keys) : cell(r, g).raised # "none"
        THEN [raised |-> "KeyError", array |-> <<>>]
        ELSE [raised |-> "none",
              array |-> [r \in 1..Len(sorted_lucodes) |->
                            [g \in 1..Len(keys) |-> cell(r, g).value]]]

\* the rows build_lookup_from_csv may hand over for one code: all four
\* runoff coefficients or all but one, and no infiltration coefficient, all
\* four, or all but one
TableRows(lucode) ==
    LET whole == BiophysicalDict({lucode})[lucode]
        rc == {rc_key(soil_groups[g]) : g \in 1..4}
        ir == {ir_key(soil_groups[g]) : g \in 1..4}
    IN  {[key \in rc_present \cup ir_present |-> whole[key]] :
            rc_present \in {rc} \cup {rc \ {k} : k \in rc},
            ir_present \in {{}, ir} \cup {ir \ {k} : k \in ir}}

\* tables of two codes; first_lucode is the code of the row that
\* next(iter(biophysical_dict.values())) returns
InitTable ==
    /\ pc = "start"
    /\ \E row1 \in TableRows(1), row2 \in TableRows(2), first_lucode \in {1, 2} :
        args = [biophysical_dict |-> <<row1, row2>>,
                sorted_lucodes |-> <<1, 2>>,
                first_lucode |-> first_lucode]
    /\ result = <<>>
    /\ raised = "none"

\* retention_ratio_array = numpy.array([[1 - biophysical_dict[lucode][...
BuildRetentionRatioArray ==
    /\ pc = "start"
    /\ LET rows == coefficient_rows(args.biophysical_dict, args.sorted_lucodes,
                                    [g \in 1..4 |-> rc_key(soil_groups[g])])
       IN  IF rows.raised = "none"
           THEN /\ pc' = "retention_ratio_array"
                /\ result' = [retention_ratio_array |->
                                 [r \in 1..Len(rows.array) |->
                                     [g \in 1..4 |-> RSub(F(1), rows.array[r][g])]]]
                /\ UNCHANGED raised
           ELSE /\ pc' = "failed"
                /\ raised' = rows.raised
                /\ UNCHANGED result
    /\ UNCHANGED args

\* if 'ir_a' in next(iter(biophysical_dict.values())):
\*     infiltration_ratio_array = numpy.array([[biophysical_dict[lucode][...
BuildInfiltrationRatioArray ==
    /\ pc = "retention_ratio_array"
    /\ "ir_a" \in DOMAIN args.biophysical_dict[args.first_lucode]
    /\ LET rows == coefficient_rows(args.biophysical_dict, args.sorted_lucodes,
                                    [g \in 1..4 |-> ir_key(soil_groups[g])])
       IN  IF rows.raised = "none"
           THEN /\ pc' = "infiltration_ratio_array"
                /\ result' = [retention_ratio_array |-> result.retention_ratio_array,
                              infiltration_ratio_array |-> rows.array]
                /\ UNCHANGED raised
           ELSE /\ pc' = "failed"
                /\ raised' = rows.raised
                /\ UNCHANGED result
    /\ UNCHANGED args

NextTable == BuildRetentionRatioArray \/ BuildInfiltrationRatioArray

SpecTable == InitTable /\ [][NextTable]_vars

(***************************************************************************)
(* Claims about the dense arrays (checked under SpecTable)                 *)
(***************************************************************************)
\* some code of the table lacks one of the four keys of a kind
LacksKey(keys) ==
    \E lucode \in DOMAIN args.biophysical_dict, g \in 1..4 :
        keys[g] \notin DOMAIN args.biophysical_dict[lucode]

rc_keys == [g \in 1..4 |-> rc_key(soil_groups[g])]

ir_keys == [g \in 1..4 |-> ir_key(soil_groups[g])]

\* C23: building the dense ratio arrays raises, and yields no array of the
\* kind, whenever some code of the table lacks the value of one of the four
\* soil groups for a required kind of coefficient (the runoff coefficients
\* always, the infiltration coefficients when the table is found to hold
\* them); a cell of an array that is built holds the value of the table and
\* never a default.
ThmC23 ==
    /\ pc = "retention_ratio_array" =>
          /\ ~LacksKey(rc_keys)
          /\ result.retention_ratio_array =
                 retention_ratio_array(args.biophysical_dict, args.sorted_lucodes)
    /\ pc = "infiltration_ratio_array" =>
          /\ ~LacksKey(rc_keys) /\ ~LacksKey(ir_keys)
          /\ result.infiltration_ratio_array =
                 infiltration_ratio_array(args.biophysical_dict, args.sorted_lucodes)
    /\ pc = "failed" =>
          /\ raised = "KeyError"
          /\ LacksKey(rc_keys) => result = <<>>
          /\ ~LacksKey(rc_keys) =>
                /\ LacksKey(ir_keys)
                /\ DOMAIN result = {"retention_ratio_array"}

\* the build has failed on a table in which code 2 alone lacks a runoff
\* coefficient
WitC23 ==
    /\ pc = "failed"
    /\ raised = "KeyError"
    /\ "rc_c" \notin DOMAIN args.biophysical_dict[2]
    /\ \A g \in 1..4 : rc_key(soil_groups[g]) \in DOMAIN args.biophysical_dict[1]


(***************************************************************************)
(* The task graph under a fair scheduler: a task whose dependent tasks     *)
(* have completed is eventually handed to a worker, and the function of a  *)
(* running task eventually returns (no task raises).                       *)
(***************************************************************************)
SpecGraphFair ==
    /\ SpecGraph
    /\ WF_vars(StartTask)
    /\ WF_vars(AppendField)
    /\ WF_vars(FinishTask)

(***************************************************************************)
(* Claims about the aggregated rasters and about termination               *)
(***************************************************************************)
\* C24 (as claimed): the raster aggregated into RR_mean is the retention
\* ratio raster the retention volume is computed from: the adjusted raster
\* when adjustment is enabled, the base raster otherwise.
CexC24 ==
    (args.config.aggregate /\ Len(result.fields) >= 1) =>
        /\ result.fields[1] = "RR_mean"
        /\ args.data_to_aggregate[1].raster_path \in TaskNamed("retention_volume_task").reads

\* the position of a task in the order of the add_task calls
Position(task) == CHOOSE k \in 1..Len(args.task_graph) : args.task_graph[k].task = task

\* every dependent task of a task was added before it
AddedEarlier ==
    \A k \in 1..Len(args.task_graph) :
        \A d \in args.task_graph[k].dependent_task_list :
            /\ d \in TaskNames(args.task_graph)
            /\ Position(d) < k

\* the aggregation has not started before every task that writes a raster it
\* aggregates has completed
AggregationLast ==
    args.config.aggregate /\ pc["aggregate_results_task"] # "pending" =>
        \A k \in 1..Len(args.data_to_aggregate) :
            \A t \in Writers(args.data_to_aggregate[k].raster_path) : pc[t] = "done"

\* a task that has started is not started again
RunsOnce ==
    \A t \in DOMAIN pc :
        /\ pc[t] = "running" => pc'[t] \in {"running", "done"}
        /\ pc[t] = "done" => pc'[t] = "done"

\* join() returns: every task added has completed
Joined == \A t \in DOMAIN pc : pc[t] = "done"

\* C29: for every configuration, every dependent task of a task was added
\* before it (so the dependency relation has no cycle); under a fair
\* scheduler and with no task failing, every task runs exactly once and
\* join() returns, the aggregation task starting only after every task whose
\* raster it aggregates.
ThmC29 ==
    /\ [](AddedEarlier /\ AggregationLast)
    /\ [][RunsOnce]_vars
    /\ <>Joined

\* join() has returned on the graph with every optional branch
WitC29 ==
    /\ Joined
    /\ args.config.adjust /\ args.config.infiltration /\ args.config.valuation
    /\ args.config.aggregate
    /\ Len(args.config.pollutants) = 2
    /\ Len(args.task_graph) = 18


(***************************************************************************)
(* Claims comparing avoided_pollutant_load_op with lookup_ratios (checked  *)
(* under SpecLoad)                                                         *)
(***************************************************************************)
\* lookup_ratios on the land-cover block of the load task, the soil group
\* 'a' at every pixel
LookupOnLoadBlock ==
    lookup_ratios(args.lulc_array, args.lulc_nodata,
                  [i \in 1..Len(args.lulc_array) |-> 1], UINT8_NODATA,
                  retention_ratio_array(BiophysicalDict(DOMAIN args.biophysical_dict),
                                        args.sorted_lucodes),
                  args.sorted_lucodes)

\* C28 (as claimed): whenever every pixel of the land-cover block that is not
\* nodata holds a code of the table, avoided_pollutant_load_op indexes the
\* EMC array only with indices 0 .. len(emc_array) - 1, at the land-cover
\* nodata pixels too, and so completes on every block on which
\* lookup_ratios completes.
CexC28 ==
    (/\ pc = "avoided_load"
     /\ \A i \in 1..Len(args.lulc_array) :
            args.lulc_array[i] = args.lulc_nodata
                \/ args.lulc_array[i] \in DOMAIN args.biophysical_dict)
    => /\ \A i \in 1..Len(args.lulc_array) :
            digitize(args.lulc_array[i], args.sorted_lucodes)
                \in 0..(Len(args.sorted_lucodes) - 1)
       /\ LookupOnLoadBlock.raised = "none" => raised = "none"


(***************************************************************************)
(* delineateit.snap_points_to_nearest_stream                               *)
(*                                                                         *)
(* The stream raster is a 2D raster of 0 and 1, read through               *)
(* ReadAsArray(xoff, yoff, xsize, ysize); pixel indexes count from 0 as in *)
(* the code.  Points and the geotransform have integer coordinates, the    *)
(* pixel being 2 units wide and high so that its centre is an integer too. *)
(***************************************************************************)
\* a // b of Python for integers: the quotient rounded down
floordiv(a, b) == IF b > 0 THEN a \div b ELSE (0 - a) \div (0 - b)

max(a, b) == IF a >= b THEN a ELSE b

min(a, b) == IF a <= b THEN a ELSE b

\* stream_band.ReadAsArray(xoff, yoff, xsize, ysize)
ReadAsArray(raster, xoff, yoff, xsize, ysize) ==
    [r \in 1..ysize |-> [c \in 1..xsize |-> raster[yoff + r][xoff + c]]]

\* numpy.nonzero(stream_window == 1): the <<row, col>> indexes of the window,
\* from 0, in row-major order
nonzero(stream_window) ==
    LET w == n_cols(stream_window)
        all == [i \in 1..(n_rows(stream_window) * w) |-> <<(i - 1) \div w, (i - 1) % w>>]
        is_stream(rc) == stream_window[rc[1] + 1][rc[2] + 1] = 1
    IN  SelectSeq(all, is_stream)

\* numpy.argmin: the first position of the smallest value
argmin(array) ==
    CHOOSE k \in 1..Len(array) :
        /\ \A j \in 1..Len(array) : array[k] <= array[j]
        /\ \A j \in 1..(k - 1) : array[j] > array[k]

\* (point[0] - geotransform[0]) // geotransform[1]
x_index(point, geotransform) == floordiv(point[1] - geotransform[1], geotransform[2])

\* (point[1] - geotransform[3]) // geotransform[5]
y_index(point, geotransform) == floordiv(point[2] - geotransform[4], geotransform[6])

\* the bounds test of the loop: True when the point is skipped
outside_bounds(x, y, raster) ==
    x < 0 \/ x >= n_cols(raster) \/ y < 0 \/ y > n_rows(raster)

\* the body of the loop for a point that is not skipped: the pixel the
\* point is moved to, as <<x_index, y_index>>
snapped_index(x, y, raster, snap_distance) ==
    LET x_center == x
        y_center == y
        x_left == max(x - snap_distance, 0)
        y_top == max(y - snap_distance, 0)
        x_right == min(x + snap_distance, n_cols(raster))
        y_bottom == min(y + snap_distance, n_rows(raster))
        stream_window == ReadAsArray(raster, x_left, y_top, x_right - x_left, y_bottom - y_top)
        indexes == nonzero(stream_window)
        \* numpy.hypot(row_indexes - y_center - y_top, col_indexes - x_center - x_left),
        \* compared through its square
        distance_array == [k \in 1..Len(indexes) |->
            (indexes[k][1] - y_center - y_top) * (indexes[k][1] - y_center - y_top)
            + (indexes[k][2] - x_center - x_left) * (indexes[k][2] - x_center - x_left)]
    IN  IF Len(indexes) > 0
        THEN LET min_index == argmin(distance_array)
                 min_row == indexes[min_index][1]
                 min_col == indexes[min_index][2]
                 offset_row == min_row - (y_center - y_top)
                 offset_col == min_col - (x_center - x_left)
             IN  <<x + offset_col, y + offset_row>>
        ELSE <<x, y>>

\* geotransform[0] + (x_index + 0.5) * geotransform[1], and the same for y;
\* the pixel size is even
pixel_center(index, geotransform) ==
    <<geotransform[1] + index[1] * geotransform[2] + geotransform[2] \div 2,
      geotransform[4] + index[2] * geotransform[6] + floordiv(geotransform[6], 2)>>

\* the features written to the snapped layer, in the order of the points
snapped_layer(points, raster, geotransform, snap_distance) ==
    LET feature(k) ==
            LET x == x_index(points[k], geotransform)
                y == y_index(points[k], geotransform)
            IN  IF outside_bounds(x, y, raster) THEN <<>>
                ELSE <<pixel_center(snapped_index(x, y, raster, snap_distance), geotransform)>>
    IN  IF Len(points) = 0 THEN <<>>
        ELSE IF Len(points) = 1 THEN feature(1)
        ELSE feature(1) \o feature(2)

\* shapes of the stream raster
StreamShapes == {<<1, 5>>, <<5, 1>>, <<2, 3>>}

\* origin (10, 20), pixels 2 wide and 2 high, north up
GeoTransform == <<10, 2, 0, 20, 0, -2>>

\* one point in every half of every pixel of the raster and of the ring of
\* pixels around it
PointsAround(shape) ==
    {<<<<px, py>>>> : px \in (GeoTransform[1] - 2)..(GeoTransform[1] + 2 * shape[2] + 1),
                      py \in (GeoTransform[4] - 2 * shape[1] - 1)..(GeoTransform[4] + 1)}

InitSnap ==
    /\ pc = "start"
    /\ \E shape \in StreamShapes :
       \E raster \in Rasters(shape, {0, 1}), points \in PointsAround(shape) :
       \E snap_distance \in 0..2 :
           args = [points |-> points, stream_raster |-> raster,
                   geotransform |-> GeoTransform, snap_distance |-> snap_distance]
    /\ result = <<>>
    /\ raised = "none"

SnapPointsToNearestStream ==
    /\ pc = "start"
    /\ IF args.snap_distance <= 0
       THEN /\ pc' = "failed"
            /\ raised' = "ValueError"
            /\ UNCHANGED result
       ELSE /\ pc' = "snapped"
            /\ result' = snapped_layer(args.points, args.stream_raster,
                                       args.geotransform, args.snap_distance)
            /\ UNCHANGED raised
    /\ UNCHANGED args

SpecSnap == InitSnap /\ [][SnapPointsToNearestStream]_vars

(***************************************************************************)
(* Claims about snap_points_to_nearest_stream (checked under SpecSnap)     *)
(***************************************************************************)
\* the pixel index of the one input point
PointPixel == <<x_index(args.points[1], args.geotransform),
                y_index(args.points[1], args.geotransform)>>

\* the pixel lies inside the stream raster
InsideRaster(index) ==
    /\ 0 <= index[1] /\ index[1] < n_cols(args.stream_raster)
    /\ 0 <= index[2] /\ index[2] < n_rows(args.stream_raster)

\* C25 (as claimed): the output holds exactly the input points whose pixel
\* index lies inside the stream raster; a point whose row index equals
\* n_rows, whose column index equals n_cols, or with a negative index, is
\* not written.
CexC25 ==
    pc = "snapped" =>
        (Len(result) = 1) = InsideRaster(PointPixel)

\* the stream pixels within snap_distance pixels of the point's pixel in
\* each direction
StreamPixelsNear ==
    {index \in (0..(n_cols(args.stream_raster) - 1)) \X (0..(n_rows(args.stream_raster) - 1)) :
        /\ args.stream_raster[index[2] + 1][index[1] + 1] = 1
        /\ Abs(index[1] - PointPixel[1]) <= args.snap_distance
        /\ Abs(index[2] - PointPixel[2]) <= args.snap_distance}

SqDistToPoint(index) ==
    (index[1] - PointPixel[1]) * (index[1] - PointPixel[1])
    + (index[2] - PointPixel[2]) * (index[2] - PointPixel[2])

\* C26 (as claimed): a point inside the raster is moved to the centre of a
\* stream pixel nearest to its own pixel among the stream pixels within
\* snap_distance pixels in each direction, wherever it lies in the raster,
\* and stays on the centre of its own pixel when there is none.
CexC26 ==
    (pc = "snapped" /\ InsideRaster(PointPixel)) =>
        /\ Len(result) = 1
        /\ IF StreamPixelsNear = {}
           THEN result[1] = pixel_center(PointPixel, args.geotransform)
           ELSE \E index \in StreamPixelsNear :
                   /\ result[1] = pixel_center(index, args.geotransform)
                   /\ \A other \in StreamPixelsNear :
                          SqDistToPoint(index) <= SqDistToPoint(other)

=============================================================================
